---------------------------- MODULE Spec2Model ----------------------------
(***************************************************************************)
(* Phone-number fraud-risk analysis backend: the evidence pipeline         *)
(* (PhoneAnalyzer), the risk scorer (RiskScorer) and the /api/analyze      *)
(* route with its 24-hour freshness lookup.                                *)
(*                                                                         *)
(* Numbers.  Python floats are modelled in fixed point.  A category        *)
(* sub-score is an integer number of points (the code only ever returns    *)
(* whole floats such as 30.0).  A weight is an integer number of 1/10000   *)
(* (0.30 is 3000), so that  sub-score * weight  is a number of 1/10000     *)
(* point.  round(x, 2) takes a number of 1/10000 point to a number of      *)
(* 1/100 point (risk_score 5.0 is 500).                                    *)
(*                                                                         *)
(* Python values.  A value that may be missing from a dict, None, or of    *)
(* the wrong type is a record [t, v] with t in "absent", "none", "str",    *)
(* "int".  An operation Python would raise on yields Exc.                  *)
(***************************************************************************)
EXTENDS Integers, Sequences, FiniteSets, TLC

VARIABLES
    pc,          \* per request: position in analyze_phone / PhoneAnalyzer.analyze
    req,         \* per request: the JSON body (phone_number, deep_scan)
    results,     \* per request: PhoneAnalyzer.results, the working result
    steps_run,   \* per request: the steps of analyze entered so far, in order
    failed,      \* per request: the steps whose try block raised
    calls,       \* per request: what each provider called so far has answered
    resp,        \* per request: the HTTP answer (status code, body)
    analyses,    \* table phone_analyses, in insertion order
    factor_rows, \* table risk_factors, in insertion order
    next_id,     \* next primary key of phone_analyses
    now,         \* datetime.utcnow(), in hours
    probe,       \* the argument a scorer function is applied to
    probe_out,   \* what the scorer function returned
    env          \* the API keys osint_modules_real reads from the environment

vars == <<pc, req, results, steps_run, failed, calls, resp, analyses, factor_rows,
          next_id, now, probe, probe_out, env>>

---------------------------------------------------------------------------
(* Python values *)

PyAbsent == [t |-> "absent", v |-> 0]
PyNone == [t |-> "none", v |-> 0]
PyStr == [t |-> "str", v |-> 0]
PyInt(n) == [t |-> "int", v |-> n]

\* dict.get(key, default): the default only when the key is missing
DictGet(val, default) == IF val.t = "absent" THEN default ELSE val

\* the outcome of a computation: a value, or an exception
Ok(x) == [raised |-> FALSE, value |-> x]
Exc == [raised |-> TRUE, value |-> 0]

Unit == 100 * 100

Min(a, b) == IF a <= b THEN a ELSE b
Max(a, b) == IF a >= b THEN a ELSE b

\* round(x, 2), x in 1/10000: the nearest 1/100, a tie going to the even one
Round2(x) ==
    LET q == x \div 100
        r == x % 100
    IN  IF r < 50 THEN q
        ELSE IF r > 50 THEN q + 1
        ELSE IF q % 2 = 0 THEN q ELSE q + 1

RECURSIVE SumSeq(_)
SumSeq(s) == IF s = <<>> THEN 0 ELSE Head(s) + SumSeq(Tail(s))

\* [f(x) for x in s]
MapSeq(s, F(_)) == [i \in 1..Len(s) |-> F(s[i])]

\* [x for x in s if P(x)] is SelectSeq(s, P)

---------------------------------------------------------------------------
(* RiskScorer *)

\* social_media_presence as the scorer reads it: a mapping, None, or missing
NoSocial == [t |-> "absent", anomaly_detected |-> FALSE, accounts_found |-> <<>>,
             severity |-> "absent"]
NoneSocial == [t |-> "none", anomaly_detected |-> FALSE, accounts_found |-> <<>>,
               severity |-> "absent"]
SocialDict(anomaly, accounts, sev) ==
    [t |-> "dict", anomaly_detected |-> anomaly, accounts_found |-> accounts,
     severity |-> sev]

\* the weights of the first two categories exchanged
weights_swapped == [social_media_anomalies |-> 2500,
                    spam_reports |-> 3000,
                    fraud_forum_mentions |-> 2500,
                    account_age |-> 1000,
                    geographic_anomalies |-> 1000]

weights == [social_media_anomalies |-> 3000,
            spam_reports |-> 2500,
            fraud_forum_mentions |-> 2500,
            account_age |-> 1000,
            geographic_anomalies |-> 1000]

\* acc.get('account_age_days', default)
AgeOr(acc, default) == DictGet(acc, PyInt(default)).v

\* the cap of 5 accounts taken as reached at 5, not above it
_calculate_social_media_score_at_5(res) ==
    LET social_data == res.social_media_presence
        accounts_found == Len(social_data.accounts_found)
        Recent(acc) == AgeOr(acc, 999) < 30
        recent == Len(SelectSeq(social_data.accounts_found, Recent))
        tier == IF recent >= 3 THEN 80 ELSE IF recent >= 2 THEN 60
                ELSE IF recent = 1 THEN 30 ELSE 0
    IN  IF social_data.t = "none" THEN Exc
        ELSE IF social_data.anomaly_detected
        THEN Ok(Min(100, tier + (IF accounts_found = 0 THEN 20 ELSE 0)
                              + (IF accounts_found >= 5 THEN 40 ELSE 0)))
        ELSE Ok(0)

_calculate_social_media_score(res) ==
    LET social_data == IF res.social_media_presence.t = "absent"
                       THEN SocialDict(FALSE, <<>>, "absent")
                       ELSE res.social_media_presence
    IN  IF social_data.t # "dict" THEN Exc      \* None.get: AttributeError
        ELSE IF social_data.anomaly_detected
        THEN LET accounts_found == Len(social_data.accounts_found)
                 Recent(acc) == AgeOr(acc, 999) < 30
                 recent_accounts == SelectSeq(social_data.accounts_found, Recent)
                 tier == IF Len(recent_accounts) >= 3 THEN 80
                         ELSE IF Len(recent_accounts) >= 2 THEN 60
                         ELSE IF Len(recent_accounts) = 1 THEN 30
                         ELSE 0
                 none_found == IF accounts_found = 0 THEN 20 ELSE 0
                 too_many == IF accounts_found > 5 THEN 40 ELSE 0
             IN  Ok(Min(100, tier + none_found + too_many))
        ELSE Ok(Min(100, 0))

\* the bands of the spam scorer with < where the code has <=
_calculate_spam_score_exclusive(res) ==
    LET spam_count == DictGet(res.spam_reports_count, PyInt(0))
    IN  IF spam_count.t # "int" THEN Exc
        ELSE IF spam_count.v = 0 THEN Ok(0)
        ELSE IF spam_count.v < 3 THEN Ok(30)
        ELSE IF spam_count.v < 10 THEN Ok(60)
        ELSE IF spam_count.v < 20 THEN Ok(85)
        ELSE Ok(100)

\* the step function shared by the two count scorers: n == 0 is False for a
\* value that is no number, and the next comparison, n <= k, raises TypeError
_calculate_spam_score(res) ==
    LET spam_count == DictGet(res.spam_reports_count, PyInt(0))
    IN  IF spam_count.t = "int" /\ spam_count.v = 0 THEN Ok(0)
        ELSE IF spam_count.t # "int" THEN Exc
        ELSE IF spam_count.v <= 3 THEN Ok(30)
        ELSE IF spam_count.v <= 10 THEN Ok(60)
        ELSE IF spam_count.v <= 20 THEN Ok(85)
        ELSE Ok(100)

_calculate_fraud_score(res) ==
    LET fraud_count == DictGet(res.fraud_mentions_count, PyInt(0))
    IN  IF fraud_count.t = "int" /\ fraud_count.v = 0 THEN Ok(0)
        ELSE IF fraud_count.t = "int" /\ fraud_count.v = 1 THEN Ok(50)
        ELSE IF fraud_count.t # "int" THEN Exc
        ELSE IF fraud_count.v <= 3 THEN Ok(80)
        ELSE Ok(100)

\* the bands of the account-age scorer with <= where the code has <
_calculate_account_age_score_inclusive(res) ==
    LET social_data == IF res.social_media_presence.t = "absent"
                       THEN SocialDict(FALSE, <<>>, "absent")
                       ELSE res.social_media_presence
    IN  IF social_data.t # "dict" THEN Exc
        ELSE LET accounts == social_data.accounts_found
                 Age(acc) == AgeOr(acc, 0)
                 total == SumSeq(MapSeq(accounts, Age))
                 n == Len(accounts)
             IN  IF accounts = <<>> THEN Ok(30)
                 ELSE IF total <= 7 * n THEN Ok(90)
                 ELSE IF total <= 30 * n THEN Ok(70)
                 ELSE IF total <= 90 * n THEN Ok(40)
                 ELSE IF total <= 180 * n THEN Ok(20)
                 ELSE Ok(0)

_calculate_account_age_score(res) ==
    LET social_data == IF res.social_media_presence.t = "absent"
                       THEN SocialDict(FALSE, <<>>, "absent")
                       ELSE res.social_media_presence
    IN  IF social_data.t # "dict" THEN Exc
        ELSE LET accounts == social_data.accounts_found
                 Age(acc) == AgeOr(acc, 0)
                 ages == MapSeq(accounts, Age)
                 total == SumSeq(ages)
                 n == Len(ages)
             IN  IF accounts = <<>> THEN Ok(30)
                 \* avg_age = total / n, so avg_age < k iff total < k * n
                 ELSE IF total < 7 * n THEN Ok(90)
                 ELSE IF total < 30 * n THEN Ok(70)
                 ELSE IF total < 90 * n THEN Ok(40)
                 ELSE IF total < 180 * n THEN Ok(20)
                 ELSE Ok(0)

\* an unresolved location given no points
_calculate_geographic_score_zero(res) == Ok(0)

_calculate_geographic_score(res) ==
    LET location == IF res.location = "absent" THEN "Unknown" ELSE res.location
    IN  IF location = "Unknown" THEN Ok(20) ELSE Ok(0)

\* the thresholds of the level taken as exclusive
_determine_risk_level_exclusive(score) ==
    IF score > 70 * Unit THEN "HIGH"
    ELSE IF score > 40 * Unit THEN "MEDIUM"
    ELSE IF score > 20 * Unit THEN "LOW"
    ELSE "MINIMAL"

\* score in 1/10000 point
_determine_risk_level(score) ==
    IF score >= 70 * Unit THEN "HIGH"
    ELSE IF score >= 40 * Unit THEN "MEDIUM"
    ELSE IF score >= 20 * Unit THEN "LOW"
    ELSE "MINIMAL"

\* the weighted sum of calculate, before it is normalised; 1/10000 point
WeightedTotal(social_score, spam_score, fraud_score, age_score, geo_score) ==
    social_score * weights.social_media_anomalies +
    spam_score * weights.spam_reports +
    fraud_score * weights.fraud_forum_mentions +
    age_score * weights.account_age +
    geo_score * weights.geographic_anomalies

\* the sub-scores added up as they are: no weights, no normalising to 0-100
calculate_unweighted(res) ==
    LET social_score == _calculate_social_media_score(res)
        spam_score == _calculate_spam_score(res)
        fraud_score == _calculate_fraud_score(res)
        age_score == _calculate_account_age_score(res)
        geo_score == _calculate_geographic_score(res)
    IN  IF social_score.raised \/ spam_score.raised \/ fraud_score.raised
           \/ age_score.raised \/ geo_score.raised
        THEN [raised |-> TRUE, score |-> 0, level |-> "none"]
        ELSE LET total_score == (social_score.value + spam_score.value
                                 + fraud_score.value + age_score.value
                                 + geo_score.value) * Unit
             IN  [raised |-> FALSE,
                  score |-> Round2(total_score),
                  level |-> _determine_risk_level(total_score)]

\* the composite rounded to whole points instead of to two decimals
calculate_rounding_whole(res) ==
    LET social_score == _calculate_social_media_score(res)
        spam_score == _calculate_spam_score(res)
        fraud_score == _calculate_fraud_score(res)
        age_score == _calculate_account_age_score(res)
        geo_score == _calculate_geographic_score(res)
    IN  IF social_score.raised \/ spam_score.raised \/ fraud_score.raised
           \/ age_score.raised \/ geo_score.raised
        THEN [raised |-> TRUE, score |-> 0, level |-> "none"]
        ELSE LET total_score ==
                     Min(100 * Unit,
                         Max(0, WeightedTotal(social_score.value, spam_score.value,
                                              fraud_score.value, age_score.value,
                                              geo_score.value)))
             IN  [raised |-> FALSE,
                  score |-> 100 * Round2(Round2(total_score)),
                  level |-> _determine_risk_level(total_score)]

\* (risk_score, risk_level), or the exception of the first sub-scorer that raises
calculate(res) ==
    LET social_score == _calculate_social_media_score(res)
        spam_score == _calculate_spam_score(res)
        fraud_score == _calculate_fraud_score(res)
        age_score == _calculate_account_age_score(res)
        geo_score == _calculate_geographic_score(res)
    IN  IF social_score.raised \/ spam_score.raised \/ fraud_score.raised
           \/ age_score.raised \/ geo_score.raised
        THEN [raised |-> TRUE, score |-> 0, level |-> "none"]
        ELSE LET total_score ==
                     Min(100 * Unit,
                         Max(0, WeightedTotal(social_score.value, spam_score.value,
                                              fraud_score.value, age_score.value,
                                              geo_score.value)))
             IN  [raised |-> FALSE,
                  score |-> Round2(total_score),
                  level |-> _determine_risk_level(total_score)]


---------------------------------------------------------------------------
(* PhoneAnalyzer: the working result *)

StepNames == <<"basic_info", "rich_metadata", "social_media", "spam_check",
               "fraud_scan", "messaging_apps">>

\* the annotation key of a step
ErrorKey(step) ==
    CASE step = "basic_info" -> "basic_info_error"
      [] step = "rich_metadata" -> "rich_metadata_error"
      [] step = "social_media" -> "social_media_error"
      [] step = "spam_check" -> "spam_check_error"
      [] step = "fraud_scan" -> "fraud_scan_error"
      [] step = "messaging_apps" -> "messaging_apps_error"

NoRichMetadata ==
    [t |-> "absent", current_carrier |-> "Unknown", original_carrier |-> "Unknown",
     porting_detected |-> FALSE, is_voip |-> FALSE, do_not_call |-> FALSE]

NoPresence == [t |-> "absent", suspicious_groups |-> 0]

\* PhoneAnalyzer.__init__: self.results.  A key the constructor does not set is
\* marked absent; errors is the set of the *_error keys present.
NewResults(phone_number) ==
    [phone_number |-> phone_number,
     data_sources_used |-> <<>>,
     risk_factors |-> <<>>,
     country_code |-> "absent",
     carrier |-> "absent",
     line_type |-> "absent",
     location |-> "absent",
     timezones |-> "absent",
     rich_metadata |-> NoRichMetadata,
     social_media_presence |-> NoSocial,
     spam_reports_count |-> PyAbsent,
     spam_details |-> "absent",
     fraud_mentions_count |-> PyAbsent,
     fraud_details |-> "absent",
     telegram_presence |-> NoPresence,
     whatsapp_presence |-> NoPresence,
     errors |-> {},
     risk_score |-> PyAbsent,
     risk_level |-> "absent"]

---------------------------------------------------------------------------
(* PhoneAnalyzer: the steps.  Each Try_* is the body of a step's try block,  *)
(* applied to the working result and to what the providers answered: it      *)
(* yields the working result as the body left it and whether it raised.      *)
(* A provider answer has t = "raise" (the call raised), "notdict" (the call  *)
(* returned None) or "dict".                                                 *)

Raised(res) == [res |-> res, raised |-> TRUE]
Completed(res) == [res |-> res, raised |-> FALSE]

\* the except clause of a step: self.results['<step>_error'] = str(e)
Annotate(res, step) == [res EXCEPT !.errors = @ \cup {ErrorKey(step)}]

RiskFactor(category, factor_type, severity, weight, source) ==
    [category |-> category, factor_type |-> factor_type, severity |-> severity,
     weight |-> weight, score_contribution |-> PyAbsent, source |-> source]

Try_get_basic_info(res, parsed) ==
    IF parsed.t = "raise" THEN Raised(res)
    ELSE Completed([res EXCEPT
            !.country_code = parsed.country_code,
            !.carrier = parsed.carrier,
            !.line_type = parsed.line_type,
            !.location = parsed.location,
            !.timezones = parsed.timezones,
            !.data_sources_used = @ \o <<"phonenumbers_library">>])

_get_basic_info(res, parsed) ==
    LET body == Try_get_basic_info(res, parsed)
    IN  IF body.raised THEN Annotate(body.res, "basic_info") ELSE body.res

\* a missing first name shown as a placeholder, the second name not looked at
CarrierOr_placeholder(a, b) == IF a \in {"absent", ""} THEN "N/A" ELSE a

\* a or b on carrier names: a missing or empty name is falsy
CarrierOr(a, b) == IF a \in {"absent", ""} THEN b ELSE a

Try_get_rich_metadata(res, ipqs_data, numverify_data) ==
    IF ipqs_data.t = "raise" \/ numverify_data.t = "raise" THEN Raised(res)
    ELSE IF ipqs_data.t # "dict" \/ numverify_data.t # "dict" THEN Raised(res)
    ELSE LET nv_carrier == IF numverify_data.carrier = "absent" THEN "Unknown"
                           ELSE numverify_data.carrier
             current_carrier == CarrierOr(ipqs_data.carrier, nv_carrier)
             original_carrier == nv_carrier
             porting_detected == /\ current_carrier # "Unknown"
                                 /\ original_carrier # "Unknown"
                                 /\ current_carrier # original_carrier
             rich_metadata ==
                 [t |-> "dict",
                  current_carrier |-> current_carrier,
                  original_carrier |-> original_carrier,
                  porting_detected |-> porting_detected,
                  is_voip |-> ipqs_data.VOIP,
                  do_not_call |-> ipqs_data.do_not_call]
             voip == IF rich_metadata.is_voip
                     THEN <<RiskFactor("carrier", "voip_number", "MEDIUM", 1500,
                                       "Carrier Analysis")>>
                     ELSE <<>>
             porting == IF rich_metadata.porting_detected
                        THEN <<RiskFactor("carrier", "porting_detected", "LOW", 1000,
                                          "Carrier Analysis")>>
                        ELSE <<>>
             dnc == IF rich_metadata.do_not_call
                    THEN <<RiskFactor("compliance", "do_not_call_registry", "LOW", 500,
                                      "Compliance Check")>>
                    ELSE <<>>
         IN  Completed([res EXCEPT
                 !.rich_metadata = rich_metadata,
                 !.data_sources_used = @ \o <<"IPQualityScore", "Numverify">>,
                 !.risk_factors = @ \o voip \o porting \o dnc])

_get_rich_metadata(res, ipqs_data, numverify_data) ==
    LET body == Try_get_rich_metadata(res, ipqs_data, numverify_data)
    IN  IF body.raised THEN Annotate(body.res, "rich_metadata") ELSE body.res

Try_check_social_media(res, social_results) ==
    IF social_results.t = "raise" THEN Raised(res)
    ELSE LET stored == [res EXCEPT
                 !.social_media_presence = social_results,
                 !.data_sources_used = @ \o <<"social_media_scan">>]
         IN  IF social_results.t # "dict" THEN Raised(stored)
             ELSE IF social_results.anomaly_detected
             THEN Completed([stored EXCEPT !.risk_factors = @ \o
                     <<RiskFactor("social_media", "suspicious_activity",
                                  IF social_results.severity = "absent" THEN "MEDIUM"
                                  ELSE social_results.severity,
                                  3000, "Social Media Scan")>>])
             ELSE Completed(stored)

_check_social_media(res, social_results) ==
    LET body == Try_check_social_media(res, social_results)
    IN  IF body.raised THEN Annotate(body.res, "social_media") ELSE body.res

Try_check_spam_databases(res, spam_results) ==
    IF spam_results.t # "dict" THEN Raised(res)
    ELSE LET total_reports == DictGet(spam_results.total_reports, PyInt(0))
             counted == [res EXCEPT !.spam_reports_count = total_reports,
                                    !.spam_details = "list"]
         IN  IF spam_results.sources = "none" THEN Raised(counted)
             ELSE LET stored == [counted EXCEPT
                          !.data_sources_used = @ \o spam_results.sources]
                  IN  IF total_reports.t # "int" THEN Raised(stored)
                      ELSE IF total_reports.v > 0
                      THEN Completed([stored EXCEPT !.risk_factors = @ \o
                              <<RiskFactor("spam_reports", "reported_spam",
                                           IF total_reports.v > 10 THEN "HIGH"
                                           ELSE "MEDIUM",
                                           2500, "Spam Databases")>>])
                      ELSE Completed(stored)

\* the spam step with an except clause that swallows the error unrecorded
_check_spam_databases_silent(res, spam_results) ==
    Try_check_spam_databases(res, spam_results).res

_check_spam_databases(res, spam_results) ==
    LET body == Try_check_spam_databases(res, spam_results)
    IN  IF body.raised THEN Annotate(body.res, "spam_check") ELSE body.res

Try_check_fraud_forums(res, fraud_results) ==
    IF fraud_results.t # "dict" THEN Raised(res)
    ELSE LET mentions_count == DictGet(fraud_results.mentions_count, PyInt(0))
             stored == [res EXCEPT
                 !.fraud_mentions_count = mentions_count,
                 !.fraud_details = "list",
                 !.data_sources_used = @ \o <<"fraud_forum_scan">>]
         IN  IF mentions_count.t # "int" THEN Raised(stored)
             ELSE IF mentions_count.v > 0
             THEN Completed([stored EXCEPT !.risk_factors = @ \o
                     <<RiskFactor("fraud_forum", "fraud_mention", "HIGH", 2500,
                                  "Fraud Forums")>>])
             ELSE Completed(stored)

_check_fraud_forums(res, fraud_results) ==
    LET body == Try_check_fraud_forums(res, fraud_results)
    IN  IF body.raised THEN Annotate(body.res, "fraud_scan") ELSE body.res

Presence(answer) ==
    [t |-> IF answer.t = "dict" THEN "dict" ELSE "none",
     suspicious_groups |-> answer.suspicious_groups]

Try_check_messaging_apps(res, telegram_results, whatsapp_results) ==
    IF telegram_results.t = "raise" THEN Raised(res)
    ELSE LET scanned == [res EXCEPT !.telegram_presence = Presence(telegram_results)]
         IN  IF whatsapp_results.t = "raise" THEN Raised(scanned)
             ELSE LET stored == [scanned EXCEPT
                          !.whatsapp_presence = Presence(whatsapp_results),
                          !.data_sources_used = @ \o <<"telegram_scan", "whatsapp_check">>]
                  IN  IF telegram_results.t # "dict" THEN Raised(stored)
                      ELSE IF telegram_results.suspicious_groups > 0
                      THEN Completed([stored EXCEPT !.risk_factors = @ \o
                              <<RiskFactor("messaging_apps",
                                           "suspicious_telegram_activity", "MEDIUM",
                                           1000, "Telegram")>>])
                      ELSE Completed(stored)

_check_messaging_apps(res, telegram_results, whatsapp_results) ==
    LET body == Try_check_messaging_apps(res, telegram_results, whatsapp_results)
    IN  IF body.raised THEN Annotate(body.res, "messaging_apps") ELSE body.res

\* the base score of the severity taken as the contribution, the weight left out
get_factor_contribution_unweighted(factor) ==
    LET severity == factor.severity
        base_score == CASE severity = "CRITICAL" -> 100
                        [] severity = "HIGH" -> 80
                        [] severity = "MEDIUM" -> 50
                        [] severity = "LOW" -> 25
                        [] OTHER -> 50
    IN  Round2(base_score * Unit)

\* RiskScorer.get_factor_contribution; 1/100 point
get_factor_contribution(factor) ==
    LET severity == factor.severity
        base_score == CASE severity = "CRITICAL" -> 100
                        [] severity = "HIGH" -> 80
                        [] severity = "MEDIUM" -> 50
                        [] severity = "LOW" -> 25
                        [] OTHER -> 50
        contribution == base_score * factor.weight
    IN  Round2(contribution)

\* the scoring step: it has no try block of its own
Try_calculate_risk(res) ==
    LET scored == calculate(res)
        Contribute(factor) ==
            [factor EXCEPT !.score_contribution = PyInt(get_factor_contribution(factor))]
    IN  IF scored.raised THEN Raised(res)
        ELSE Completed([res EXCEPT
                !.risk_score = PyInt(scored.score),
                !.risk_level = scored.level,
                !.risk_factors = MapSeq(@, Contribute)])

---------------------------------------------------------------------------
(* What the phonenumbers library answers for the numbers of the model *)

Phones == {"+14155552671", "+1 415 555 2671", "+80012345678", "+1555", "abc", ""}

\* phonenumbers.parse(phone_number, None) and the lookups on the parsed number
phonenumbers_parse(phone_number) ==
    CASE phone_number \in {"+14155552671", "+1 415 555 2671"} ->
            [t |-> "ok", e164 |-> "+14155552671", valid |-> TRUE,
             country_code |-> "+1", carrier |-> "Unknown", line_type |-> "2",
             location |-> "San Francisco, CA", timezones |-> "America/Los_Angeles"]
      [] phone_number = "+80012345678" ->
            [t |-> "ok", e164 |-> "+80012345678", valid |-> TRUE,
             country_code |-> "+800", carrier |-> "Unknown", line_type |-> "3",
             location |-> "Unknown", timezones |-> "Etc/Unknown"]
      [] phone_number = "+1555" ->
            [t |-> "ok", e164 |-> "+1555", valid |-> FALSE,
             country_code |-> "+1", carrier |-> "Unknown", line_type |-> "-1",
             location |-> "Unknown", timezones |-> "Etc/Unknown"]
      [] OTHER ->
            [t |-> "raise", e164 |-> "", valid |-> FALSE,
             country_code |-> "", carrier |-> "", line_type |-> "",
             location |-> "", timezones |-> ""]

---------------------------------------------------------------------------
(* What the providers may answer *)

Ipqs(t, carrier, voip, dnc) ==
    [t |-> t, error |-> FALSE, carrier |-> carrier, VOIP |-> voip, do_not_call |-> dnc]
\* {'error': ..., 'fraud_score': 0}
IpqsError == [t |-> "dict", error |-> TRUE, carrier |-> "absent", VOIP |-> FALSE,
              do_not_call |-> FALSE]
Numverify(t, carrier) == [t |-> t, error |-> FALSE, carrier |-> carrier]
\* {'valid': False, 'error': ...}
NumverifyError == [t |-> "dict", error |-> TRUE, carrier |-> "absent"]

IpqsAnswers ==
    {Ipqs("raise", "absent", FALSE, FALSE), Ipqs("notdict", "absent", FALSE, FALSE),
     IpqsError,
     Ipqs("dict", "Unknown", FALSE, FALSE),
     Ipqs("dict", "CarrierA", TRUE, FALSE),
     Ipqs("dict", "CarrierB", FALSE, TRUE)}
\* the upstream JSON may carry "carrier": "" for a number it has no carrier of
NumverifyAnswers ==
    {Numverify("raise", "absent"), NumverifyError, Numverify("dict", "CarrierA"),
     Numverify("dict", "")}

RaiseSocial == [t |-> "raise", anomaly_detected |-> FALSE, accounts_found |-> <<>>,
                severity |-> "absent"]
SocialAnswers ==
    {RaiseSocial, NoneSocial,
     SocialDict(FALSE, <<>>, "absent"),
     SocialDict(FALSE, <<PyInt(400)>>, "absent"),
     SocialDict(TRUE, <<>>, "absent"),
     SocialDict(TRUE, <<PyInt(5), PyInt(5), PyInt(5), PyInt(5), PyInt(5), PyInt(5)>>,
                "CRITICAL")}

Spam(t, total_reports, sources) ==
    [t |-> t, total_reports |-> total_reports, sources |-> sources]
SpamAnswers ==
    {Spam("raise", PyAbsent, <<>>), Spam("notdict", PyAbsent, <<>>),
     Spam("dict", PyAbsent, <<>>), Spam("dict", PyInt(0), <<>>),
     Spam("dict", PyNone, <<>>),
     Spam("dict", PyInt(2), "none"),
     Spam("dict", PyInt(2), <<"IPQualityScore">>),
     Spam("dict", PyInt(11), <<"IPQualityScore">>),
     Spam("dict", PyInt(21), <<"IPQualityScore">>)}

Fraud(t, mentions_count) == [t |-> t, mentions_count |-> mentions_count]
FraudAnswers ==
    {Fraud("raise", PyAbsent), Fraud("notdict", PyAbsent), Fraud("dict", PyAbsent),
     Fraud("dict", PyNone), Fraud("dict", PyInt(0)), Fraud("dict", PyInt(1)),
     Fraud("dict", PyInt(4))}

Messenger(t, groups) == [t |-> t, suspicious_groups |-> groups]
\* <<Telegram's answer, WhatsApp's answer>>
MessagingAnswers ==
    {<<Messenger("raise", 0), Messenger("dict", 0)>>,
     <<Messenger("dict", 0), Messenger("raise", 0)>>,
     <<Messenger("notdict", 0), Messenger("dict", 0)>>,
     <<Messenger("dict", 0), Messenger("dict", 0)>>,
     <<Messenger("dict", 2), Messenger("dict", 0)>>}

\* no provider has been called yet
NoCalls ==
    [ipqs |-> Ipqs("pending", "absent", FALSE, FALSE),
     numverify |-> Numverify("pending", "absent"),
     social |-> [RaiseSocial EXCEPT !.t = "pending"],
     spam |-> Spam("pending", PyAbsent, <<>>),
     fraud |-> Fraud("pending", PyAbsent),
     telegram |-> Messenger("pending", 0),
     whatsapp |-> Messenger("pending", 0)]

MaxSpamScore == 100     \* the largest spam_score the fraud-score API answers

---------------------------------------------------------------------------
(* The shipped providers, osint_modules_real.py.  A provider is applied to   *)
(* whether its API key is configured and to what the HTTP request came to.   *)

\* NUMVERIFY_API_KEY and IPQUALITYSCORE_API_KEY: configured, or the empty string
Environment(numverify_key, ipqs_key) ==
    [NUMVERIFY_API_KEY |-> numverify_key, IPQUALITYSCORE_API_KEY |-> ipqs_key]
KeysConfigured == Environment(TRUE, TRUE)
Environments == {Environment(n, i) : n, i \in BOOLEAN}

\* the JSON the fraud-score API answers: t is "none" (null), "empty" ({}), "list"
\* (a non-empty array) or "dict" (a non-empty object with these members)
IpqsJson(t, success, message, spam_score, fraud_score, recent_abuse, risky, voip) ==
    [t |-> t, success |-> success, message |-> message, carrier |-> "CarrierA",
     spam_score |-> spam_score, fraud_score |-> fraud_score,
     recent_abuse |-> recent_abuse, risky |-> risky, VOIP |-> voip,
     do_not_call |-> FALSE]
NoIpqsJson == IpqsJson("none", FALSE, "absent", PyAbsent, PyAbsent, FALSE, FALSE, FALSE)

\* the JSON the validity API answers; error is "absent", "dict" ({"info": ...})
\* or "str" (a bare message)
NumverifyJson(t, valid, carrier, error) ==
    [t |-> t, valid |-> valid, carrier |-> carrier, error |-> error]
NoNumverifyJson == NumverifyJson("none", FALSE, "absent", "absent")

\* an HTTP exchange: how it ended and, if it ended well, the body
Http(outcome, json) == [outcome |-> outcome, json |-> json]

\* BaseScanner._make_request: None for a request that failed (connection error,
\* timeout, error status, body that is no JSON), else response.json()
_make_request(http, none) == IF http.outcome # "ok" THEN none ELSE http.json

\* a payload of IPQualityScoreChecker.check_fraud; error is "absent" or the message
IpqsPayload(t, error, carrier, spam_score, fraud_score, recent_abuse, risky, voip, dnc) ==
    [t |-> t, error |-> error, carrier |-> carrier, spam_score |-> spam_score,
     fraud_score |-> fraud_score, recent_abuse |-> recent_abuse, risky |-> risky,
     VOIP |-> voip, do_not_call |-> dnc]
IpqsErrorPayload(t, error) ==
    IpqsPayload(t, error, "absent", PyAbsent, PyInt(0), FALSE, FALSE, FALSE, FALSE)

\* IPQualityScoreChecker.check_fraud; data.get raises on a JSON value that is
\* true in a condition and is no object
check_fraud(key, http) ==
    IF ~key THEN IpqsErrorPayload("dict", "IPQUALITYSCORE_API_KEY not configured")
    ELSE LET data == _make_request(http, NoIpqsJson)
         IN  IF data.t \in {"none", "empty"}
             THEN IpqsErrorPayload("dict", "Request failed")
             ELSE IF data.t # "dict" THEN IpqsErrorPayload("raise", "absent")
             ELSE IF data.success
             THEN IpqsPayload("dict", "absent", data.carrier,
                              DictGet(data.spam_score, PyInt(0)),
                              DictGet(data.fraud_score, PyInt(0)),
                              data.recent_abuse, data.risky, data.VOIP,
                              data.do_not_call)
             ELSE IpqsErrorPayload("dict", IF data.message = "absent" THEN "API error"
                                           ELSE data.message)

\* a payload of NumverifyValidator.validate
NumverifyPayload(t, valid, error, carrier) ==
    [t |-> t, valid |-> valid, error |-> error, carrier |-> carrier]

\* NumverifyValidator.validate; data.get('error', {}).get raises when the error
\* member is no object
validate(key, http) ==
    IF ~key THEN NumverifyPayload("dict", FALSE, "NUMVERIFY_API_KEY not configured",
                                  "absent")
    ELSE LET data == _make_request(http, NoNumverifyJson)
         IN  IF data.t \in {"none", "empty"}
             THEN NumverifyPayload("dict", FALSE, "API error", "absent")
             ELSE IF data.t # "dict" THEN NumverifyPayload("raise", FALSE, "absent", "absent")
             ELSE IF data.valid
             THEN NumverifyPayload("dict", TRUE, "absent",
                                   IF data.carrier = "absent" THEN "Unknown"
                                   ELSE data.carrier)
             ELSE IF data.error = "str"
             THEN NumverifyPayload("raise", FALSE, "absent", "absent")
             ELSE NumverifyPayload("dict", FALSE,
                                   IF data.error = "absent" THEN "Invalid number"
                                   ELSE "info", "absent")

\* SpamDatabaseChecker.check with the spam score taken as the report count
SpamDatabaseChecker_check_undivided(key, http) ==
    IF ~key THEN Spam("dict", PyInt(0), <<>>)
    ELSE LET fraud_data == check_fraud(key, http)
             spam_score == DictGet(fraud_data.spam_score, PyInt(0))
         IN  IF fraud_data.t = "raise" THEN Spam("raise", PyAbsent, <<>>)
             ELSE IF fraud_data.error \notin {"absent", ""} THEN Spam("dict", PyInt(0), <<>>)
             ELSE IF spam_score.t # "int" THEN Spam("raise", PyAbsent, <<>>)
             ELSE IF spam_score.v > 0
             THEN Spam("dict", PyInt(spam_score.v), <<"IPQualityScore">>)
             ELSE Spam("dict", PyInt(0), <<>>)

\* SpamDatabaseChecker.check: total_reports = int(spam_score / 10);
\* spam_score > 0 raises for a spam_score that is no number
SpamDatabaseChecker_check(key, http) ==
    IF ~key THEN Spam("dict", PyInt(0), <<>>)
    ELSE LET fraud_data == check_fraud(key, http)
             spam_score == DictGet(fraud_data.spam_score, PyInt(0))
         IN  IF fraud_data.t = "raise" THEN Spam("raise", PyAbsent, <<>>)
             ELSE IF fraud_data.error \notin {"absent", ""} THEN Spam("dict", PyInt(0), <<>>)
             ELSE IF spam_score.t # "int" THEN Spam("raise", PyAbsent, <<>>)
             ELSE IF spam_score.v > 0
             THEN Spam("dict", PyInt(spam_score.v \div 10), <<"IPQualityScore">>)
             ELSE Spam("dict", PyInt(0), <<>>)

\* FraudForumScanner.scan: one mention for a number flagged abusive or risky;
\* fraud_score > 75 raises for a fraud_score that is no number
FraudForumScanner_scan(key, http) ==
    IF ~key THEN Fraud("dict", PyInt(0))
    ELSE LET fraud_data == check_fraud(key, http)
             fraud_score == DictGet(fraud_data.fraud_score, PyInt(0))
         IN  IF fraud_data.t = "raise" THEN Fraud("raise", PyAbsent)
             ELSE IF fraud_data.error \notin {"absent", ""} THEN Fraud("dict", PyInt(0))
             ELSE IF fraud_data.recent_abuse \/ fraud_data.risky
             THEN IF fraud_score.t # "int" THEN Fraud("raise", PyAbsent)
                  ELSE Fraud("dict", PyInt(1))
             ELSE Fraud("dict", PyInt(0))

\* SocialMediaScanner.scan: nothing is scanned
SocialMediaScanner_scan == SocialDict(FALSE, <<>>, "absent")

\* TelegramScanner.scan and WhatsAppChecker.check: fixed notices
TelegramScanner_scan == Messenger("dict", 0)
WhatsAppChecker_check == Messenger("dict", 0)

\* the members of a check_fraud payload that _get_rich_metadata reads
AsIpqs(payload) ==
    [t |-> payload.t, error |-> payload.error # "absent", carrier |-> payload.carrier,
     VOIP |-> payload.VOIP, do_not_call |-> payload.do_not_call]

\* the members of a validate payload that _get_rich_metadata reads
AsNumverify(payload) ==
    [t |-> payload.t, error |-> payload.error # "absent", carrier |-> payload.carrier]

\* what the HTTP request to the fraud-score API may come to
IpqsHttp ==
    {Http("timeout", NoIpqsJson), Http("connection_error", NoIpqsJson),
     Http("not_json", NoIpqsJson),
     Http("ok", IpqsJson("empty", FALSE, "absent", PyAbsent, PyAbsent, FALSE, FALSE, FALSE)),
     Http("ok", IpqsJson("list", FALSE, "absent", PyAbsent, PyAbsent, FALSE, FALSE, FALSE)),
     Http("ok", IpqsJson("dict", FALSE, "Invalid key", PyAbsent, PyAbsent, FALSE, FALSE,
                         FALSE)),
     Http("ok", IpqsJson("dict", FALSE, "absent", PyAbsent, PyAbsent, FALSE, FALSE, FALSE)),
     Http("ok", IpqsJson("dict", TRUE, "absent", PyAbsent, PyInt(0), FALSE, FALSE, FALSE)),
     Http("ok", IpqsJson("dict", TRUE, "absent", PyInt(0), PyInt(10), FALSE, FALSE, TRUE)),
     Http("ok", IpqsJson("dict", TRUE, "absent", PyInt(9), PyInt(80), FALSE, TRUE, FALSE)),
     Http("ok", IpqsJson("dict", TRUE, "absent", PyInt(55), PyInt(90), TRUE, FALSE, TRUE)),
     Http("ok", IpqsJson("dict", TRUE, "absent", PyInt(MaxSpamScore), PyInt(100), TRUE,
                         TRUE, TRUE)),
     Http("ok", IpqsJson("dict", TRUE, "absent", PyNone, PyInt(0), FALSE, FALSE, FALSE)),
     Http("ok", IpqsJson("dict", TRUE, "absent", PyInt(0), PyNone, FALSE, TRUE, FALSE))}

\* what the HTTP request to the validity API may come to
NumverifyHttp ==
    {Http("timeout", NoNumverifyJson), Http("not_json", NoNumverifyJson),
     Http("ok", NumverifyJson("empty", FALSE, "absent", "absent")),
     Http("ok", NumverifyJson("list", FALSE, "absent", "absent")),
     Http("ok", NumverifyJson("dict", TRUE, "CarrierA", "absent")),
     Http("ok", NumverifyJson("dict", TRUE, "CarrierB", "absent")),
     Http("ok", NumverifyJson("dict", TRUE, "absent", "absent")),
     Http("ok", NumverifyJson("dict", FALSE, "absent", "absent")),
     Http("ok", NumverifyJson("dict", FALSE, "absent", "dict")),
     Http("ok", NumverifyJson("dict", FALSE, "absent", "str"))}

---------------------------------------------------------------------------
(* PhoneAnalyzer.analyze, one step at a time *)

Procs == {1, 2}

MaxRows == 3            \* rows of phone_analyses
MaxKey == 4             \* primary keys 1..MaxKey are given out
MaxHours == 36          \* the clock runs from 0 to MaxHours

NoRequest == [phone_number |-> "", deep_scan |-> FALSE]

\* the step a run is at moves on; everything outside the run stays
Advance(p, step, next, res, raised) ==
    /\ pc' = [pc EXCEPT ![p] = next]
    /\ results' = [results EXCEPT ![p] = res]
    /\ steps_run' = [steps_run EXCEPT ![p] = Append(@, step)]
    /\ failed' = [failed EXCEPT ![p] = IF raised THEN @ \cup {step} ELSE @]
    /\ UNCHANGED <<req, resp, analyses, factor_rows, next_id, now, probe, probe_out, env>>

\* the two lists of the working result kept by the class, one pair of lists for
\* every analyzer, instead of made anew by the constructor
NewAnalyzer_keeping(p, phone_number) ==
    /\ pc[p] \in {"idle", "scored", "raised"}
    /\ pc' = [pc EXCEPT ![p] = "basic_info"]
    /\ req' = [req EXCEPT ![p] = [phone_number |-> phone_number, deep_scan |-> FALSE]]
    /\ results' = [results EXCEPT ![p] =
           [NewResults(phone_number) EXCEPT
               !.risk_factors = results[1].risk_factors,
               !.data_sources_used = results[1].data_sources_used]]
    /\ steps_run' = [steps_run EXCEPT ![p] = <<>>]
    /\ failed' = [failed EXCEPT ![p] = {}]
    /\ calls' = [calls EXCEPT ![p] = NoCalls]
    /\ UNCHANGED <<resp, analyses, factor_rows, next_id, now, probe, probe_out, env>>

\* analyzer = PhoneAnalyzer(phone_number); analyzer.analyze() begins
NewAnalyzer(p, phone_number) ==
    /\ pc[p] \in {"idle", "scored", "raised"}
    /\ pc' = [pc EXCEPT ![p] = "basic_info"]
    /\ req' = [req EXCEPT ![p] = [phone_number |-> phone_number, deep_scan |-> FALSE]]
    /\ results' = [results EXCEPT ![p] = NewResults(phone_number)]
    /\ steps_run' = [steps_run EXCEPT ![p] = <<>>]
    /\ failed' = [failed EXCEPT ![p] = {}]
    /\ calls' = [calls EXCEPT ![p] = NoCalls]
    /\ UNCHANGED <<resp, analyses, factor_rows, next_id, now, probe, probe_out, env>>

GetBasicInfo(p) ==
    /\ pc[p] = "basic_info"
    /\ UNCHANGED calls
    /\ LET parsed == phonenumbers_parse(results[p].phone_number)
       IN  Advance(p, "basic_info", "rich_metadata",
                   _get_basic_info(results[p], parsed),
                   Try_get_basic_info(results[p], parsed).raised)

GetRichMetadata(p, ipqs_data, numverify_data) ==
    /\ pc[p] = "rich_metadata"
    \* the validity provider is called only once the fraud-score provider returned
    /\ calls' = [calls EXCEPT ![p].ipqs = ipqs_data,
                              ![p].numverify = IF ipqs_data.t = "raise" THEN @
                                               ELSE numverify_data]
    /\ Advance(p, "rich_metadata", "social_media",
               _get_rich_metadata(results[p], ipqs_data, numverify_data),
               Try_get_rich_metadata(results[p], ipqs_data, numverify_data).raised)

\* the social media step handing over to the fraud forum step: the spam step
\* is passed by
CheckSocialMedia_skipping(p, social_results) ==
    /\ pc[p] = "social_media"
    /\ calls' = [calls EXCEPT ![p].social = social_results]
    /\ Advance(p, "social_media", "fraud_scan",
               _check_social_media(results[p], social_results),
               Try_check_social_media(results[p], social_results).raised)

CheckSocialMedia(p, social_results) ==
    /\ pc[p] = "social_media"
    /\ calls' = [calls EXCEPT ![p].social = social_results]
    /\ Advance(p, "social_media", "spam_check",
               _check_social_media(results[p], social_results),
               Try_check_social_media(results[p], social_results).raised)

CheckSpamDatabases(p, spam_results) ==
    /\ pc[p] = "spam_check"
    /\ calls' = [calls EXCEPT ![p].spam = spam_results]
    /\ Advance(p, "spam_check", "fraud_scan",
               _check_spam_databases(results[p], spam_results),
               Try_check_spam_databases(results[p], spam_results).raised)

CheckFraudForums(p, fraud_results) ==
    /\ pc[p] = "fraud_scan"
    /\ calls' = [calls EXCEPT ![p].fraud = fraud_results]
    /\ Advance(p, "fraud_scan", "messaging_apps",
               _check_fraud_forums(results[p], fraud_results),
               Try_check_fraud_forums(results[p], fraud_results).raised)

CheckMessagingApps(p, telegram_results, whatsapp_results) ==
    /\ pc[p] = "messaging_apps"
    /\ calls' = [calls EXCEPT ![p].telegram = telegram_results,
                              ![p].whatsapp = IF telegram_results.t = "raise" THEN @
                                              ELSE whatsapp_results]
    /\ Advance(p, "messaging_apps", "scoring",
               _check_messaging_apps(results[p], telegram_results, whatsapp_results),
               Try_check_messaging_apps(results[p], telegram_results,
                                        whatsapp_results).raised)

\* step 7 and the end of analyze: return self.results, or
\* raise Exception("Analysis failed: ...") when the scorer raised
CalculateRisk(p) ==
    /\ pc[p] = "scoring"
    /\ UNCHANGED calls
    /\ LET body == Try_calculate_risk(results[p])
       IN  Advance(p, "scoring", IF body.raised THEN "raised" ELSE "scored",
                   body.res, body.raised)

---------------------------------------------------------------------------
(* The tables and the /api/analyze route *)

\* the validator without its is_valid_number test: whatever parses is let through
validate_phone_number_parses(phone_number) ==
    IF phone_number = "" THEN FALSE
    ELSE phonenumbers_parse(phone_number).t # "raise"

\* validators.validate_phone_number: is_valid
validate_phone_number(phone_number) ==
    IF phone_number = "" THEN FALSE
    ELSE LET parsed == phonenumbers_parse(phone_number)
         IN  IF parsed.t = "raise" THEN FALSE
             ELSE parsed.valid

\* validators.format_phone_number: the E.164 form, or the input if it does not parse
format_phone_number(phone_number) ==
    LET parsed == phonenumbers_parse(phone_number)
    IN  IF parsed.t = "raise" THEN phone_number ELSE parsed.e164

\* analysis_result.get(key): None for a key the working result lacks
GetStr(val) == IF val = "absent" THEN "none" ELSE val
GetVal(val) == IF val.t = "absent" THEN [val EXCEPT !.t = "none"] ELSE val

\* a column with default=...: the default is stored when the value given is None
ColumnDefault(val, default) ==
    IF val.t \in {"absent", "none"} THEN default ELSE val

\* PhoneAnalysis(...): the row analyze_phone builds from the working result;
\* analysis_date is the column default, utcnow at the insert
PhoneAnalysis(id, phone_number, analysis_result, date) ==
    [id |-> id,
     phone_number |-> phone_number,
     country_code |-> GetStr(analysis_result.country_code),
     carrier |-> GetStr(analysis_result.carrier),
     line_type |-> GetStr(analysis_result.line_type),
     risk_score |-> ColumnDefault(analysis_result.risk_score, PyInt(0)),
     risk_level |-> GetStr(analysis_result.risk_level),
     social_media_presence |-> GetVal(analysis_result.social_media_presence),
     spam_reports_count |-> ColumnDefault(analysis_result.spam_reports_count, PyInt(0)),
     fraud_mentions_count |-> ColumnDefault(analysis_result.fraud_mentions_count,
                                            PyInt(0)),
     telegram_presence |-> GetVal(analysis_result.telegram_presence),
     whatsapp_presence |-> GetVal(analysis_result.whatsapp_presence),
     rich_metadata |-> GetVal(analysis_result.rich_metadata),
     data_sources_used |-> analysis_result.data_sources_used,
     analysis_date |-> date]

\* RiskFactor(analysis=analysis, ...): the row of one factor of the working result
RiskFactorRow(analysis_id, factor) ==
    [analysis_id |-> analysis_id,
     category |-> factor.category,
     factor_type |-> factor.factor_type,
     severity |-> factor.severity,
     weight |-> factor.weight,
     score_contribution |-> factor.score_contribution,
     source |-> factor.source]

\* x or {}: an empty mapping for None
OrEmpty(val) == IF val.t = "none" THEN [val EXCEPT !.t = "dict"] ELSE val

\* PhoneAnalysis.to_dict, with RiskFactor.to_dict for each of its factors
to_dict(row, factors) ==
    LET Mine(f) == f.analysis_id = row.id
        FactorDict(f) == [category |-> f.category, factor_type |-> f.factor_type,
                          severity |-> f.severity, weight |-> f.weight,
                          score_contribution |-> f.score_contribution,
                          source |-> f.source]
    IN  [id |-> row.id,
         phone_number |-> row.phone_number,
         country_code |-> row.country_code,
         carrier |-> row.carrier,
         line_type |-> row.line_type,
         risk_score |-> row.risk_score,
         risk_level |-> row.risk_level,
         social_media_presence |-> OrEmpty(row.social_media_presence),
         spam_reports_count |-> row.spam_reports_count,
         fraud_mentions_count |-> row.fraud_mentions_count,
         telegram_presence |-> OrEmpty(row.telegram_presence),
         whatsapp_presence |-> OrEmpty(row.whatsapp_presence),
         rich_metadata |-> OrEmpty(row.rich_metadata),
         analysis_date |-> row.analysis_date,
         data_sources_used |-> row.data_sources_used,
         risk_factors |-> MapSeq(SelectSeq(factors, Mine), FactorDict)]

\* the body of an answer that carries no analysis
NoAnalysis == to_dict(PhoneAnalysis(0, "", NewResults(""), 0), <<>>)

Response(code, message, analysis) ==
    [code |-> code, message |-> message, analysis |-> analysis]

\* no answer yet
NoResponse == Response(0, "", NoAnalysis)

Rows(table) == {table[i] : i \in 1..Len(table)}

\* the rows the freshness query matches: the phone_number as submitted, and an
\* analysis_date later than utcnow() - 24 hours
RecentAnalyses(phone_number) ==
    {row \in Rows(analyses) :
        /\ row.phone_number = phone_number
        /\ row.analysis_date > now - 24}

\* the freshness test deciding alone, deep_scan not looked at
UseCached_whenever_recent(recent_found, deep_scan) == recent_found

\* if recent_analysis and not deep_scan
UseCached(recent_found, deep_scan) == recent_found /\ ~deep_scan

\* POST /api/analyze up to the start of the analysis: validation, the freshness
\* query and, on a miss or a deep scan, PhoneAnalyzer(phone_number, deep_scan).
\* .first() has no ORDER BY: any matching row may be the one returned.
AnalyzePhone(p, phone_number, deep_scan) ==
    /\ pc[p] = "idle"
    /\ req' = [req EXCEPT ![p] = [phone_number |-> phone_number,
                                  deep_scan |-> deep_scan]]
    /\ steps_run' = [steps_run EXCEPT ![p] = <<>>]
    /\ failed' = [failed EXCEPT ![p] = {}]
    /\ calls' = [calls EXCEPT ![p] = NoCalls]
    /\ UNCHANGED <<analyses, factor_rows, next_id, now, probe, probe_out, env>>
    /\ IF ~validate_phone_number(phone_number)
       THEN /\ pc' = [pc EXCEPT ![p] = "responded"]
            /\ resp' = [resp EXCEPT ![p] = Response(400, "error", NoAnalysis)]
            /\ UNCHANGED results
       ELSE IF UseCached(RecentAnalyses(phone_number) # {}, deep_scan)
       THEN /\ pc' = [pc EXCEPT ![p] = "responded"]
            /\ \E recent_analysis \in RecentAnalyses(phone_number) :
                   resp' = [resp EXCEPT ![p] =
                       Response(200, "Using cached analysis from last 24 hours",
                                to_dict(recent_analysis, factor_rows))]
            /\ UNCHANGED results
       ELSE /\ Len(analyses) < MaxRows
            /\ pc' = [pc EXCEPT ![p] = "basic_info"]
            /\ results' = [results EXCEPT ![p] = NewResults(phone_number)]
            /\ UNCHANGED resp

\* POST /api/analyze with a body that is no JSON object: request.get_json() gives
\* None or raises, data.get raises, and the except clause answers 500
AnalyzeNoBody(p) ==
    /\ pc[p] = "idle"
    /\ pc' = [pc EXCEPT ![p] = "responded"]
    /\ resp' = [resp EXCEPT ![p] = Response(500, "error", NoAnalysis)]
    /\ UNCHANGED <<req, results, steps_run, failed, calls, analyses, factor_rows,
                   next_id, now, probe, probe_out, env>>

\* analyze returned: the rows are added and committed, and the answer is 201
SaveAnalysis(p) ==
    /\ pc[p] = "scored"
    /\ LET analysis == PhoneAnalysis(next_id, req[p].phone_number, results[p], now)
           Row(factor) == RiskFactorRow(next_id, factor)
           added == MapSeq(results[p].risk_factors, Row)
       IN  /\ analyses' = Append(analyses, analysis)
           /\ factor_rows' = factor_rows \o added
           /\ resp' = [resp EXCEPT ![p] =
                  Response(201, "Analysis completed successfully",
                           to_dict(analysis, factor_rows \o added))]
    /\ next_id' = next_id + 1
    /\ pc' = [pc EXCEPT ![p] = "responded"]
    /\ UNCHANGED <<req, results, steps_run, failed, calls, now, probe, probe_out, env>>

\* the except clause committing what the run gathered instead of rolling back
AnalysisFailed_storing(p) ==
    /\ pc[p] = "raised"
    /\ analyses' = Append(analyses,
                          PhoneAnalysis(next_id, req[p].phone_number, results[p], now))
    /\ next_id' = next_id + 1
    /\ resp' = [resp EXCEPT ![p] = Response(500, "error", NoAnalysis)]
    /\ pc' = [pc EXCEPT ![p] = "responded"]
    /\ UNCHANGED <<req, results, steps_run, failed, calls, factor_rows, now, probe,
                   probe_out, env>>

\* analyze raised: except Exception: db.session.rollback(), and the answer is 500
AnalysisFailed(p) ==
    /\ pc[p] = "raised"
    /\ resp' = [resp EXCEPT ![p] = Response(500, "error", NoAnalysis)]
    /\ pc' = [pc EXCEPT ![p] = "responded"]
    /\ UNCHANGED <<req, results, steps_run, failed, calls, analyses, factor_rows,
                   next_id, now, probe, probe_out, env>>

\* the answer has gone to the client; nothing of the request stays
Answered(p) ==
    /\ pc[p] = "responded"
    /\ pc' = [pc EXCEPT ![p] = "idle"]
    /\ req' = [req EXCEPT ![p] = NoRequest]
    /\ resp' = [resp EXCEPT ![p] = NoResponse]
    /\ results' = [results EXCEPT ![p] = NewResults("")]
    /\ steps_run' = [steps_run EXCEPT ![p] = <<>>]
    /\ failed' = [failed EXCEPT ![p] = {}]
    /\ calls' = [calls EXCEPT ![p] = NoCalls]
    /\ UNCHANGED <<analyses, factor_rows, next_id, now, probe, probe_out, env>>

\* the primary key the next row gets once rows are gone: one more than the
\* greatest key left (SQLite's rowid), or the next of a sequence that never
\* goes back (other databases)
NextKeys(table, sequence) ==
    LET keys == {table[i].id : i \in 1..Len(table)}
        greatest == IF keys = {} THEN 0
                    ELSE CHOOSE k \in keys : \A other \in keys : other <= k
    IN  {greatest + 1, sequence}

\* the delete route removing the analysis row alone
DeleteAnalysis_leaving_factors(p, analysis_id) ==
    /\ pc[p] = "idle"
    /\ pc' = [pc EXCEPT ![p] = "responded"]
    /\ IF \E row \in Rows(analyses) : row.id = analysis_id
       THEN LET Other(row) == row.id # analysis_id
            IN  /\ analyses' = SelectSeq(analyses, Other)
                /\ UNCHANGED factor_rows
                /\ next_id' \in NextKeys(SelectSeq(analyses, Other), next_id)
                /\ resp' = [resp EXCEPT ![p] =
                       Response(200, "Analysis deleted successfully",
                                [NoAnalysis EXCEPT !.id = analysis_id])]
       ELSE /\ resp' = [resp EXCEPT ![p] = Response(500, "error", NoAnalysis)]
            /\ UNCHANGED <<analyses, factor_rows, next_id>>
    /\ UNCHANGED <<req, results, steps_run, failed, calls, now, probe, probe_out, env>>

\* DELETE /api/report/<analysis_id>: the factors of the analysis and the analysis
\* go in one transaction; get_or_404 raises for an unknown id, which the except
\* clause answers with 500
DeleteAnalysis(p, analysis_id) ==
    /\ pc[p] = "idle"
    /\ pc' = [pc EXCEPT ![p] = "responded"]
    /\ IF \E row \in Rows(analyses) : row.id = analysis_id
       THEN LET Other(row) == row.id # analysis_id
                OfOther(factor) == factor.analysis_id # analysis_id
            IN  /\ analyses' = SelectSeq(analyses, Other)
                /\ factor_rows' = SelectSeq(factor_rows, OfOther)
                /\ next_id' \in NextKeys(SelectSeq(analyses, Other), next_id)
                /\ resp' = [resp EXCEPT ![p] =
                       Response(200, "Analysis deleted successfully",
                                [NoAnalysis EXCEPT !.id = analysis_id])]
       ELSE /\ resp' = [resp EXCEPT ![p] = Response(500, "error", NoAnalysis)]
            /\ UNCHANGED <<analyses, factor_rows, next_id>>
    /\ UNCHANGED <<req, results, steps_run, failed, calls, now, probe, probe_out, env>>

\* DELETE /api/history/clear: every factor and every analysis goes
ClearHistory(p) ==
    /\ pc[p] = "idle"
    /\ pc' = [pc EXCEPT ![p] = "responded"]
    /\ analyses' = <<>>
    /\ factor_rows' = <<>>
    /\ next_id' \in NextKeys(<<>>, next_id)
    /\ resp' = [resp EXCEPT ![p] =
           Response(200, "All analysis history cleared successfully", NoAnalysis)]
    /\ UNCHANGED <<req, results, steps_run, failed, calls, now, probe, probe_out, env>>

\* twelve hours pass
Tick ==
    /\ now + 12 <= MaxHours
    /\ now' = now + 12
    /\ UNCHANGED <<pc, req, results, steps_run, failed, calls, resp, analyses,
                   factor_rows, next_id, probe, probe_out, env>>

---------------------------------------------------------------------------
(* Bounds of the scorer probes *)

MaxCount == 22          \* report and mention counts 0..MaxCount
MaxAccounts == 6        \* found accounts in a probe of the social scorer
MaxAgeAccounts == 2     \* found accounts in a probe of the account-age scorer
MaxScore == 100         \* the level function is probed on 0..MaxScore points

\* ages on both sides of the 30-day line of the social scorer, and a missing one
SocialAges == {PyAbsent, PyInt(5), PyInt(30)}
\* ages on both sides of every line of the account-age scorer
BandAges == {PyAbsent, PyInt(0), PyInt(6), PyInt(7), PyInt(29), PyInt(30),
             PyInt(89), PyInt(90), PyInt(179), PyInt(180), PyInt(400)}

SeqsUpTo(S, n) == UNION {[1..k -> S] : k \in 0..n}

CountValues == {PyAbsent, PyNone, PyStr} \cup {PyInt(n) : n \in 0..MaxCount}

ProbeBase == NewResults("+14155552671")

\* one working result per probe: one category varies, the others stay missing
SpamProbes == {[ProbeBase EXCEPT !.spam_reports_count = c] : c \in CountValues}
FraudProbes == {[ProbeBase EXCEPT !.fraud_mentions_count = c] : c \in CountValues}
SocialProbes ==
    {[ProbeBase EXCEPT !.social_media_presence = SocialDict(a, accs, "absent")] :
        a \in BOOLEAN, accs \in SeqsUpTo(SocialAges, MaxAccounts)}
    \cup {[ProbeBase EXCEPT !.social_media_presence = NoneSocial]}
AgeProbes ==
    {[ProbeBase EXCEPT !.social_media_presence = SocialDict(FALSE, accs, "absent")] :
        accs \in SeqsUpTo(BandAges, MaxAgeAccounts)}
GeoProbes == {[ProbeBase EXCEPT !.location = l] : l \in {"absent", "Unknown", "Paris"}}

\* every category at once, one value per band of each sub-scorer
MixSocial ==
    {NoSocial, NoneSocial,
     SocialDict(FALSE, <<PyInt(400)>>, "absent"),
     SocialDict(TRUE, <<>>, "absent"),
     SocialDict(TRUE, <<PyInt(5)>>, "absent"),
     SocialDict(TRUE, <<PyInt(5), PyInt(5)>>, "absent"),
     SocialDict(TRUE, <<PyInt(5), PyInt(5), PyInt(5)>>, "absent"),
     SocialDict(TRUE, <<PyInt(5), PyInt(30), PyInt(30), PyInt(30), PyInt(30),
                        PyInt(30)>>, "absent"),
     SocialDict(TRUE, <<PyInt(5), PyInt(5), PyInt(200), PyInt(200), PyInt(200),
                        PyInt(200)>>, "absent"),
     SocialDict(TRUE, <<PyInt(100), PyInt(100)>>, "absent")}
MixCounts == {PyAbsent, PyNone, PyInt(0), PyInt(1), PyInt(2), PyInt(4), PyInt(11),
              PyInt(21)}
\* one found-accounts list for every pair of social and account-age sub-scores
\* the two sub-scorers can give together
BandSocial ==
    {SocialDict(FALSE, <<PyInt(180)>>, "absent"),
     SocialDict(FALSE, <<PyInt(90)>>, "absent"),
     SocialDict(FALSE, <<>>, "absent"),
     SocialDict(FALSE, <<PyInt(30)>>, "absent"),
     SocialDict(FALSE, <<PyInt(7)>>, "absent"),
     SocialDict(FALSE, <<PyAbsent>>, "absent"),
     SocialDict(TRUE, <<>>, "absent"),
     SocialDict(TRUE, <<PyInt(0), PyInt(400)>>, "absent"),
     SocialDict(TRUE, <<PyInt(0), PyInt(180)>>, "absent"),
     SocialDict(TRUE, <<PyInt(0), PyInt(89)>>, "absent"),
     SocialDict(TRUE, <<PyInt(7)>>, "absent"),
     SocialDict(TRUE, <<PyInt(0)>>, "absent"),
     SocialDict(TRUE, <<PyAbsent, PyAbsent, PyAbsent, PyAbsent, PyInt(89), PyInt(1000)>>, "absent"),
     SocialDict(TRUE, <<PyAbsent, PyAbsent, PyAbsent, PyAbsent, PyAbsent, PyInt(1000)>>, "absent"),
     SocialDict(TRUE, <<PyAbsent, PyAbsent, PyAbsent, PyAbsent, PyAbsent, PyInt(180)>>, "absent"),
     SocialDict(TRUE, <<PyAbsent, PyAbsent, PyAbsent, PyAbsent, PyAbsent, PyInt(89)>>, "absent"),
     SocialDict(TRUE, <<PyAbsent, PyAbsent, PyAbsent, PyAbsent, PyAbsent, PyAbsent>>, "absent"),
     SocialDict(TRUE, <<PyInt(0), PyInt(0), PyInt(1000)>>, "absent"),
     SocialDict(TRUE, <<PyInt(0), PyInt(0), PyInt(400)>>, "absent"),
     SocialDict(TRUE, <<PyInt(0), PyInt(0), PyInt(90)>>, "absent"),
     SocialDict(TRUE, <<PyInt(0), PyInt(29)>>, "absent"),
     SocialDict(TRUE, <<PyInt(0), PyInt(0)>>, "absent"),
     SocialDict(TRUE, <<PyAbsent, PyAbsent, PyAbsent, PyInt(0), PyInt(89), PyInt(1000)>>, "absent"),
     SocialDict(TRUE, <<PyAbsent, PyAbsent, PyAbsent, PyAbsent, PyInt(0), PyInt(1000)>>, "absent"),
     SocialDict(TRUE, <<PyAbsent, PyAbsent, PyAbsent, PyAbsent, PyInt(0), PyInt(180)>>, "absent"),
     SocialDict(TRUE, <<PyAbsent, PyAbsent, PyAbsent, PyAbsent, PyInt(0), PyInt(89)>>, "absent"),
     SocialDict(TRUE, <<PyAbsent, PyAbsent, PyAbsent, PyAbsent, PyAbsent, PyInt(0)>>, "absent"),
     SocialDict(TRUE, <<PyInt(0), PyInt(0), PyInt(0), PyInt(1000)>>, "absent"),
     SocialDict(TRUE, <<PyInt(0), PyInt(0), PyInt(0), PyInt(400)>>, "absent"),
     SocialDict(TRUE, <<PyInt(0), PyInt(0), PyInt(0), PyInt(179)>>, "absent"),
     SocialDict(TRUE, <<PyInt(0), PyInt(0), PyInt(29)>>, "absent"),
     SocialDict(TRUE, <<PyInt(0), PyInt(0), PyInt(0)>>, "absent"),
     SocialDict(TRUE, <<PyAbsent, PyAbsent, PyInt(0), PyInt(0), PyInt(89), PyInt(1000)>>, "absent"),
     SocialDict(TRUE, <<PyAbsent, PyAbsent, PyAbsent, PyInt(0), PyInt(0), PyInt(1000)>>, "absent"),
     SocialDict(TRUE, <<PyAbsent, PyAbsent, PyAbsent, PyInt(0), PyInt(0), PyInt(180)>>, "absent"),
     SocialDict(TRUE, <<PyAbsent, PyAbsent, PyAbsent, PyAbsent, PyInt(29), PyInt(29)>>, "absent"),
     SocialDict(TRUE, <<PyAbsent, PyAbsent, PyAbsent, PyAbsent, PyInt(0), PyInt(0)>>, "absent")}
\* one count in every band of the spam and fraud sub-scorers
BandCounts == {PyInt(0), PyInt(1), PyInt(2), PyInt(4), PyInt(11), PyInt(21)}
BandProbes ==
    {[ProbeBase EXCEPT !.social_media_presence = s, !.spam_reports_count = c,
                       !.fraud_mentions_count = f, !.location = l] :
        s \in BandSocial, c \in BandCounts, f \in BandCounts,
        l \in {"Unknown", "Paris"}}

MixProbes ==
    {[ProbeBase EXCEPT !.social_media_presence = s, !.spam_reports_count = c,
                       !.fraud_mentions_count = f, !.location = l] :
        s \in MixSocial, c \in MixCounts, f \in MixCounts,
        l \in {"absent", "Unknown", "Paris"}}
    \cup BandProbes

\* scores in 1/100 point, as 1/10000
ScoreProbes == {100 * k : k \in 0..(100 * MaxScore)}

NoProbe == [kind |-> "none", res |-> ProbeBase, score |-> 0]
ResultProbe(kind, r) == [kind |-> kind, res |-> r, score |-> 0]
LevelProbe(s) == [kind |-> "level", res |-> ProbeBase, score |-> s]

NoOut == [fn |-> "none", raised |-> FALSE, value |-> 0, level |-> "none"]

---------------------------------------------------------------------------
(* The scorer applied to a probe *)

ScorerFrame ==
    UNCHANGED <<pc, req, results, steps_run, failed, calls, resp, analyses,
                factor_rows, next_id, now, probe, env>>

Apply_determine_risk_level ==
    /\ probe.kind = "level"
    /\ ScorerFrame
    /\ probe_out' = [fn |-> "_determine_risk_level", raised |-> FALSE,
                     value |-> probe.score,
                     level |-> _determine_risk_level(probe.score)]

ApplySub(fn, F(_)) ==
    /\ ScorerFrame
    /\ probe_out' = [fn |-> fn, raised |-> F(probe.res).raised,
                     value |-> F(probe.res).value, level |-> "none"]

Apply_calculate_spam_score ==
    /\ probe.kind = "spam"
    /\ ApplySub("_calculate_spam_score", _calculate_spam_score)

Apply_calculate_fraud_score ==
    /\ probe.kind = "fraud"
    /\ ApplySub("_calculate_fraud_score", _calculate_fraud_score)

Apply_calculate_social_media_score ==
    /\ probe.kind = "social"
    /\ ApplySub("_calculate_social_media_score", _calculate_social_media_score)

Apply_calculate_account_age_score ==
    /\ probe.kind = "age"
    /\ ApplySub("_calculate_account_age_score", _calculate_account_age_score)

Apply_calculate_geographic_score ==
    /\ probe.kind = "geo"
    /\ ApplySub("_calculate_geographic_score", _calculate_geographic_score)

Apply_calculate ==
    /\ probe.kind = "mix"
    /\ ScorerFrame
    /\ probe_out' = [fn |-> "calculate", raised |-> calculate(probe.res).raised,
                     value |-> calculate(probe.res).score,
                     level |-> calculate(probe.res).level]


---------------------------------------------------------------------------
(* A shipped provider applied to an HTTP exchange *)

ProviderOut(fn, payload) ==
    [fn |-> fn, raised |-> payload.t = "raise", payload |-> payload]

Apply_validate ==
    /\ probe.kind = "numverify"
    /\ ScorerFrame
    /\ probe_out' = ProviderOut("validate", validate(env.NUMVERIFY_API_KEY, probe.http))

Apply_check_fraud ==
    /\ probe.kind = "ipqs"
    /\ ScorerFrame
    /\ probe_out' = ProviderOut("check_fraud",
                                check_fraud(env.IPQUALITYSCORE_API_KEY, probe.http))

Apply_SpamDatabaseChecker_check ==
    /\ probe.kind = "ipqs"
    /\ ScorerFrame
    /\ probe_out' = ProviderOut("SpamDatabaseChecker.check",
               SpamDatabaseChecker_check(env.IPQUALITYSCORE_API_KEY, probe.http))

Apply_FraudForumScanner_scan ==
    /\ probe.kind = "ipqs"
    /\ ScorerFrame
    /\ probe_out' = ProviderOut("FraudForumScanner.scan",
               FraudForumScanner_scan(env.IPQUALITYSCORE_API_KEY, probe.http))

---------------------------------------------------------------------------
(* Specifications *)

InitRequests ==
    /\ pc = [p \in Procs |-> "idle"]
    /\ req = [p \in Procs |-> NoRequest]
    /\ results = [p \in Procs |-> NewResults("")]
    /\ steps_run = [p \in Procs |-> <<>>]
    /\ failed = [p \in Procs |-> {}]
    /\ calls = [p \in Procs |-> NoCalls]
    /\ resp = [p \in Procs |-> NoResponse]

InitStore ==
    /\ analyses = <<>>
    /\ factor_rows = <<>>
    /\ next_id = 1
    /\ now = 0


\* the numbers PhoneAnalyzer is run on directly: a located one, one with no
\* location, one that does not parse
AnalyzerPhones == {"+14155552671", "+80012345678", "abc"}

\* PhoneAnalyzer used directly: one run after another, any provider answers
Init ==
    /\ InitRequests
    /\ InitStore
    /\ env = KeysConfigured
    /\ probe = NoProbe
    /\ probe_out = NoOut

Next ==
    \/ \E phone_number \in AnalyzerPhones : NewAnalyzer(1, phone_number)
    \/ GetBasicInfo(1)
    \/ \E i \in IpqsAnswers, n \in NumverifyAnswers : GetRichMetadata(1, i, n)
    \/ \E s \in SocialAnswers : CheckSocialMedia(1, s)
    \/ \E s \in SpamAnswers : CheckSpamDatabases(1, s)
    \/ \E f \in FraudAnswers : CheckFraudForums(1, f)
    \/ \E m \in MessagingAnswers : CheckMessagingApps(1, m[1], m[2])
    \/ CalculateRisk(1)

Spec == Init /\ [][Next]_vars

\* the server: requests to /api/analyze one after another, with the hours passing
ApiPhones == {"+14155552671", "+1 415 555 2671", "+1555", "abc", ""}
ApiIpqsAnswers == {Ipqs("dict", "CarrierA", TRUE, FALSE)}
ApiNumverifyAnswers == {NumverifyError}
ApiSocialAnswers == {SocialDict(FALSE, <<>>, "absent")}
ApiSpamAnswers == {Spam("raise", PyAbsent, <<>>), Spam("dict", PyNone, <<>>),
                   Spam("dict", PyInt(11), <<"IPQualityScore">>)}
ApiFraudAnswers == {Fraud("dict", PyInt(0))}
ApiMessagingAnswers == {<<Messenger("dict", 0), Messenger("dict", 0)>>}

NextApi ==
    \/ \E phone_number \in ApiPhones, deep_scan \in BOOLEAN :
           AnalyzePhone(1, phone_number, deep_scan)
    \/ AnalyzeNoBody(1)
    \/ GetBasicInfo(1)
    \/ \E i \in ApiIpqsAnswers, n \in ApiNumverifyAnswers : GetRichMetadata(1, i, n)
    \/ \E s \in ApiSocialAnswers : CheckSocialMedia(1, s)
    \/ \E s \in ApiSpamAnswers : CheckSpamDatabases(1, s)
    \/ \E f \in ApiFraudAnswers : CheckFraudForums(1, f)
    \/ \E m \in ApiMessagingAnswers : CheckMessagingApps(1, m[1], m[2])
    \/ CalculateRisk(1)
    \/ SaveAnalysis(1)
    \/ AnalysisFailed(1)
    \/ Answered(1)
    \/ Tick

SpecApi == Init /\ [][NextApi]_vars

\* RiskScorer's functions, each applied to arguments drawn from the probe sets
InitScorer ==
    /\ InitRequests
    /\ InitStore
    /\ env = KeysConfigured
    /\ probe \in {ResultProbe("spam", r) : r \in SpamProbes}
                 \cup {ResultProbe("fraud", r) : r \in FraudProbes}
                 \cup {ResultProbe("social", r) : r \in SocialProbes}
                 \cup {ResultProbe("age", r) : r \in AgeProbes}
                 \cup {ResultProbe("geo", r) : r \in GeoProbes}
                 \cup {ResultProbe("mix", r) : r \in MixProbes}
                 \cup {LevelProbe(s) : s \in ScoreProbes}
    /\ probe_out = NoOut

NextScorer ==
    \/ Apply_determine_risk_level
    \/ Apply_calculate_spam_score
    \/ Apply_calculate_fraud_score
    \/ Apply_calculate_social_media_score
    \/ Apply_calculate_account_age_score
    \/ Apply_calculate_geographic_score
    \/ Apply_calculate

SpecScorer == InitScorer /\ [][NextScorer]_vars

\* PhoneAnalyzer run twice: a first analyzer is made and run to its end, then a
\* second one, each step of either given one of these answers
TwicePhones == {"+14155552671", "abc"}
TwiceIpqsAnswers == {IpqsError, Ipqs("dict", "CarrierB", FALSE, TRUE)}
TwiceNumverifyAnswers == {Numverify("dict", "CarrierA")}
TwiceSocialAnswers ==
    {RaiseSocial,
     SocialDict(TRUE, <<PyInt(5), PyInt(5), PyInt(5), PyInt(5), PyInt(5), PyInt(5)>>,
                "CRITICAL")}
TwiceSpamAnswers == {Spam("raise", PyAbsent, <<>>),
                     Spam("dict", PyInt(11), <<"IPQualityScore">>)}
TwiceFraudAnswers == {Fraud("dict", PyNone), Fraud("dict", PyInt(1))}
TwiceMessagingAnswers == {<<Messenger("dict", 2), Messenger("dict", 0)>>}

FirstRun(phone_number) ==
    /\ pc[1] = "idle"
    /\ pc[2] = "idle"
    /\ NewAnalyzer(1, phone_number)

SecondRun(phone_number) ==
    /\ pc[1] \in {"scored", "raised"}
    /\ pc[2] = "idle"
    /\ NewAnalyzer(2, phone_number)

NextTwice ==
    \/ \E phone_number \in TwicePhones : FirstRun(phone_number)
    \/ \E phone_number \in TwicePhones : SecondRun(phone_number)
    \/ \E p \in Procs : GetBasicInfo(p)
    \/ \E p \in Procs, i \in TwiceIpqsAnswers, n \in TwiceNumverifyAnswers :
           GetRichMetadata(p, i, n)
    \/ \E p \in Procs, s \in TwiceSocialAnswers : CheckSocialMedia(p, s)
    \/ \E p \in Procs, s \in TwiceSpamAnswers : CheckSpamDatabases(p, s)
    \/ \E p \in Procs, f \in TwiceFraudAnswers : CheckFraudForums(p, f)
    \/ \E p \in Procs, m \in TwiceMessagingAnswers : CheckMessagingApps(p, m[1], m[2])
    \/ \E p \in Procs : CalculateRisk(p)

SpecTwice == Init /\ [][NextTwice]_vars

\* the server with two workers: requests for one number, deep_scan false, handled
\* at the same time; the steps of the two requests interleave in any order and
\* the spam provider may answer each of them differently
NextConcurrent ==
    \/ \E p \in Procs : AnalyzePhone(p, "+14155552671", FALSE)
    \/ \E p \in Procs : GetBasicInfo(p)
    \/ \E p \in Procs, i \in ApiIpqsAnswers, n \in ApiNumverifyAnswers :
           GetRichMetadata(p, i, n)
    \/ \E p \in Procs, s \in ApiSocialAnswers : CheckSocialMedia(p, s)
    \/ \E p \in Procs, s \in ApiSpamAnswers : CheckSpamDatabases(p, s)
    \/ \E p \in Procs, f \in ApiFraudAnswers : CheckFraudForums(p, f)
    \/ \E p \in Procs, m \in ApiMessagingAnswers : CheckMessagingApps(p, m[1], m[2])
    \/ \E p \in Procs : CalculateRisk(p)
    \/ \E p \in Procs : SaveAnalysis(p)
    \/ \E p \in Procs : AnalysisFailed(p)
    \/ \E p \in Procs : Answered(p)

SpecConcurrent == Init /\ [][NextConcurrent]_vars

\* POST /api/analyze with deep_scan true, while primary keys are left
DeepScan(p, phone_number) ==
    /\ next_id <= MaxKey
    /\ AnalyzePhone(p, phone_number, TRUE)

\* the server with its three writing routes: one worker analyzes, another
\* deletes single analyses or clears the history, at any moment of an analysis
NextStore ==
    \/ DeepScan(1, "+14155552671")
    \/ GetBasicInfo(1)
    \/ \E i \in ApiIpqsAnswers, n \in ApiNumverifyAnswers : GetRichMetadata(1, i, n)
    \/ \E s \in ApiSocialAnswers : CheckSocialMedia(1, s)
    \/ \E s \in ApiSpamAnswers : CheckSpamDatabases(1, s)
    \/ \E f \in ApiFraudAnswers : CheckFraudForums(1, f)
    \/ \E m \in ApiMessagingAnswers : CheckMessagingApps(1, m[1], m[2])
    \/ CalculateRisk(1)
    \/ SaveAnalysis(1)
    \/ AnalysisFailed(1)
    \/ \E analysis_id \in 1..MaxKey : DeleteAnalysis(2, analysis_id)
    \/ ClearHistory(2)
    \/ \E p \in Procs : Answered(p)

SpecStore == Init /\ [][NextStore]_vars

\* the shipped providers, each applied to an HTTP exchange under an environment
InitProviders ==
    /\ InitRequests
    /\ InitStore
    /\ env \in Environments
    /\ probe \in {[kind |-> "ipqs", http |-> h] : h \in IpqsHttp}
                 \cup {[kind |-> "numverify", http |-> h] : h \in NumverifyHttp}
    /\ probe_out = NoOut

NextProviders ==
    \/ Apply_validate
    \/ Apply_check_fraud
    \/ Apply_SpamDatabaseChecker_check
    \/ Apply_FraudForumScanner_scan

SpecProviders == InitProviders /\ [][NextProviders]_vars

\* PhoneAnalyzer run with the shipped providers: every provider call of a step
\* makes its own HTTP request
NextReal ==
    \/ \E phone_number \in AnalyzerPhones : NewAnalyzer(1, phone_number)
    \/ GetBasicInfo(1)
    \/ \E i \in IpqsHttp, n \in NumverifyHttp :
           GetRichMetadata(1, AsIpqs(check_fraud(env.IPQUALITYSCORE_API_KEY, i)),
                           AsNumverify(validate(env.NUMVERIFY_API_KEY, n)))
    \/ CheckSocialMedia(1, SocialMediaScanner_scan)
    \/ \E h \in IpqsHttp :
           CheckSpamDatabases(1, SpamDatabaseChecker_check(env.IPQUALITYSCORE_API_KEY, h))
    \/ \E h \in IpqsHttp :
           CheckFraudForums(1, FraudForumScanner_scan(env.IPQUALITYSCORE_API_KEY, h))
    \/ CheckMessagingApps(1, TelegramScanner_scan, WhatsAppChecker_check)
    \/ CalculateRisk(1)

InitReal ==
    /\ InitRequests
    /\ InitStore
    /\ env \in Environments
    /\ probe = NoProbe
    /\ probe_out = NoOut

SpecReal == InitReal /\ [][NextReal]_vars


---------------------------------------------------------------------------
(* Claims about the scorer's functions (SpecScorer) *)

LevelRank(level) ==
    CASE level = "MINIMAL" -> 0
      [] level = "LOW" -> 1
      [] level = "MEDIUM" -> 2
      [] level = "HIGH" -> 3
      [] OTHER -> 4

\* C3: for every score s the level is HIGH if s >= 70, MEDIUM if 40 <= s < 70,
\* LOW if 20 <= s < 40 and MINIMAL if s < 20; it never is CRITICAL, and it does
\* not decrease from s to s + 0.01.
C3_LevelThresholds ==
    probe_out.fn = "_determine_risk_level" =>
        LET s == probe_out.value
            level == probe_out.level
        IN  /\ s >= 70 * Unit => level = "HIGH"
            /\ (40 * Unit <= s /\ s < 70 * Unit) => level = "MEDIUM"
            /\ (20 * Unit <= s /\ s < 40 * Unit) => level = "LOW"
            /\ s < 20 * Unit => level = "MINIMAL"
            /\ level # "CRITICAL"
            /\ LevelRank(level) <= LevelRank(_determine_risk_level(s + 100))

\* 69.99 has been given MEDIUM
C3_Witness ==
    /\ probe_out.fn = "_determine_risk_level"
    /\ probe_out.value = 699900
    /\ probe_out.level = "MEDIUM"

\* the five sub-scores of the probed working result
SubScores(res) ==
    [social |-> _calculate_social_media_score(res).value,
     spam |-> _calculate_spam_score(res).value,
     fraud |-> _calculate_fraud_score(res).value,
     age |-> _calculate_account_age_score(res).value,
     geo |-> _calculate_geographic_score(res).value]

\* C8: the composite score is social*0.30 + spam*0.25 + fraud*0.25 + age*0.10 +
\* geo*0.10, the weights adding up to 1.0, clamped to [0, 100] and rounded to two
\* decimals.
C8_CompositeScore ==
    /\ weights.social_media_anomalies + weights.spam_reports
       + weights.fraud_forum_mentions + weights.account_age
       + weights.geographic_anomalies = Unit
    /\ (probe_out.fn = "calculate" /\ ~probe_out.raised) =>
        LET sub == SubScores(probe.res)
            sum == sub.social * 3000 + sub.spam * 2500 + sub.fraud * 2500
                   + sub.age * 1000 + sub.geo * 1000
            clamped == IF sum < 0 THEN 0 ELSE IF sum > 100 * Unit THEN 100 * Unit
                       ELSE sum
        IN  /\ probe_out.value * 100 - clamped \in -50..50
            /\ probe_out.value = Round2(clamped)

\* calculate has returned 84.0 for 100, 100, 100, 20 and 20
C8_Witness ==
    /\ probe_out.fn = "calculate"
    /\ ~probe_out.raised
    /\ SubScores(probe.res) = [social |-> 100, spam |-> 100, fraud |-> 100,
                               age |-> 20, geo |-> 20]
    /\ probe_out.value = 8400

\* C9: for a report count n >= 0 the spam sub-score is 0 for 0, 30 for 1..3,
\* 60 for 4..10, 85 for 11..20 and 100 above 20, and it does not decrease from
\* n to n + 1.
C9_SpamBands ==
    (probe_out.fn = "_calculate_spam_score" /\ probe.res.spam_reports_count.t = "int") =>
        LET n == probe.res.spam_reports_count.v
            score == probe_out.value
            after == _calculate_spam_score(
                         [probe.res EXCEPT !.spam_reports_count = PyInt(n + 1)])
        IN  /\ ~probe_out.raised
            /\ n = 0 => score = 0
            /\ n \in 1..3 => score = 30
            /\ n \in 4..10 => score = 60
            /\ n \in 11..20 => score = 85
            /\ n > 20 => score = 100
            /\ score <= after.value

\* 21 reports have been given 100
C9_Witness ==
    /\ probe_out.fn = "_calculate_spam_score"
    /\ probe.res.spam_reports_count = PyInt(21)
    /\ probe_out.value = 100

\* the found accounts younger than 30 days
RecentCount(accounts) ==
    Cardinality({i \in 1..Len(accounts) :
                    accounts[i].t = "int" /\ accounts[i].v < 30})

\* C10: the social sub-score is 0 without an anomaly; with one it is the tier of
\* the number of found accounts younger than 30 days (0, 30, 60, 80 for 0, 1, 2,
\* 3 or more), plus 20 if no account was found, plus 40 if more than 5 were, and
\* at most 100.
C10_SocialScore ==
    (probe_out.fn = "_calculate_social_media_score"
     /\ probe.res.social_media_presence.t = "dict") =>
        LET social == probe.res.social_media_presence
            found == Len(social.accounts_found)
            recent == RecentCount(social.accounts_found)
            tier == CASE recent = 0 -> 0
                      [] recent = 1 -> 30
                      [] recent = 2 -> 60
                      [] OTHER -> 80
            sum == tier + (IF found = 0 THEN 20 ELSE 0) + (IF found > 5 THEN 40 ELSE 0)
        IN  /\ ~probe_out.raised
            /\ ~social.anomaly_detected => probe_out.value = 0
            /\ social.anomaly_detected =>
                   probe_out.value = (IF sum > 100 THEN 100 ELSE sum)

\* an anomaly with six accounts, one of them recent, has been given 30 + 40
C10_Witness ==
    /\ probe_out.fn = "_calculate_social_media_score"
    /\ probe.res.social_media_presence.anomaly_detected
    /\ Len(probe.res.social_media_presence.accounts_found) = 6
    /\ RecentCount(probe.res.social_media_presence.accounts_found) = 1
    /\ probe_out.value = 70

\* the threshold function on a score in 1/100 point
ThresholdLevel(score) ==
    IF score >= 7000 THEN "HIGH"
    ELSE IF score >= 4000 THEN "MEDIUM"
    ELSE IF score >= 2000 THEN "LOW"
    ELSE "MINIMAL"

\* C28: calculate takes the risk level from the unrounded composite and returns
\* it next to the rounded score; for every combination of the five sub-scores
\* the returned risk_level is the threshold function of the returned
\* risk_score: rounding moves no score across 20, 40 or 70.
C28_RoundingKeepsLevel ==
    (probe_out.fn = "calculate" /\ ~probe_out.raised) =>
        probe_out.level = ThresholdLevel(probe_out.value)

\* a composite a quarter point under a threshold
C28_Witness ==
    /\ probe_out.fn = "calculate"
    /\ ~probe_out.raised
    /\ probe_out.value \in {1975, 3975, 6975}

\* every found account carries an age
AgesKnown(accounts) == \A i \in 1..Len(accounts) : accounts[i].t = "int"

\* the ages of the found accounts, added up
AgeTotal(accounts) == SumSeq([i \in 1..Len(accounts) |-> accounts[i].v])

\* C11: the account-age sub-score is 30 when no account was found; otherwise,
\* with a the average age in days of the found accounts, it is 90 if a < 7,
\* 70 if 7 <= a < 30, 40 if 30 <= a < 90, 20 if 90 <= a < 180 and 0 if a >= 180.
\* (a < k is total < k * n for n accounts whose ages add up to total.)
C11_AccountAgeBands ==
    (/\ probe_out.fn = "_calculate_account_age_score"
     /\ probe.res.social_media_presence.t = "dict"
     /\ AgesKnown(probe.res.social_media_presence.accounts_found)) =>
        LET accounts == probe.res.social_media_presence.accounts_found
            n == Len(accounts)
            total == AgeTotal(accounts)
            score == probe_out.value
        IN  /\ ~probe_out.raised
            /\ n = 0 => score = 30
            /\ (n > 0 /\ total < 7 * n) => score = 90
            /\ (n > 0 /\ 7 * n <= total /\ total < 30 * n) => score = 70
            /\ (n > 0 /\ 30 * n <= total /\ total < 90 * n) => score = 40
            /\ (n > 0 /\ 90 * n <= total /\ total < 180 * n) => score = 20
            /\ (n > 0 /\ total >= 180 * n) => score = 0

\* two accounts of 0 and 180 days, 90 on average, have been given 20
C11_Witness ==
    /\ probe_out.fn = "_calculate_account_age_score"
    /\ probe.res.social_media_presence.accounts_found = <<PyInt(0), PyInt(180)>>
    /\ probe_out.value = 20

---------------------------------------------------------------------------
(* Claims about one run of PhoneAnalyzer.analyze (Spec) *)

EvidenceSteps == {StepNames[i] : i \in 1..Len(StepNames)}
RunOver(p) == pc[p] \in {"scored", "raised"}

\* C1: a step that fails is recorded under its own annotation key, and under no
\* other, and every later step runs, scoring included.
C1_FailureIsolation ==
    /\ results[1].errors = {ErrorKey(step) : step \in failed[1] \cap EvidenceSteps}
    /\ \A i \in 1..Len(steps_run[1]) : steps_run[1][i] = (StepNames \o <<"scoring">>)[i]
    /\ RunOver(1) => steps_run[1] = StepNames \o <<"scoring">>

\* all six evidence steps have failed and the scoring step has run
C1_Witness ==
    /\ RunOver(1)
    /\ EvidenceSteps \subseteq failed[1]
    /\ Cardinality(results[1].errors) = 6
    /\ steps_run[1][7] = "scoring"

\* C2: the risk_score of a completed run lies in [0, 100].
C2_ScoreRange ==
    pc[1] = "scored" =>
        /\ results[1].risk_score.t = "int"
        /\ results[1].risk_score.v >= 0
        /\ results[1].risk_score.v <= 100 * 100

\* a run has completed with 91.0, the highest score the sub-scorers allow, and
\* with one of its steps failed
C2_Witness ==
    /\ pc[1] = "scored"
    /\ results[1].risk_score = PyInt(9100)
    /\ failed[1] # {}

\* C6: whenever basic parsing succeeded, the run completes with a risk_score and
\* a risk_level, whatever became of the five enrichment steps.
C6_CompletesAfterBasicInfo ==
    (RunOver(1) /\ "basic_info" \notin failed[1]) =>
        /\ pc[1] = "scored"
        /\ results[1].risk_score.t = "int"
        /\ results[1].risk_level \in {"MINIMAL", "LOW", "MEDIUM", "HIGH"}

\* C7: the scorer never raises on a working result the pipeline hands it.
C7_ScorerNeverRaises ==
    /\ pc[1] # "raised"
    /\ "scoring" \notin failed[1]
    /\ pc[1] = "scoring" => ~calculate(results[1]).raised


---------------------------------------------------------------------------
(* Claims about /api/analyze (SpecApi) *)

\* a request arrives at the route in this step
Arrives(p) == pc[p] = "idle" /\ pc'[p] # "idle"

\* the stored analyses of the number phone_number denotes that are younger than
\* 24 hours
FreshAnalyses(phone_number) ==
    {row \in Rows(analyses) :
        /\ format_phone_number(row.phone_number) = format_phone_number(phone_number)
        /\ now - row.analysis_date < 24}

\* the request is answered at once with a stored analysis out of rows, no step of
\* the pipeline is entered and the tables stay as they are
AnsweredFromStore(p, rows) ==
    /\ pc'[p] = "responded"
    /\ resp'[p].code = 200
    /\ resp'[p].analysis \in {to_dict(row, factor_rows) : row \in rows}
    /\ steps_run'[p] = <<>>
    /\ UNCHANGED <<analyses, factor_rows, next_id>>

\* C4: a request with deep_scan=false for a phone number of which an analysis
\* younger than 24 hours is stored invokes no provider, stores nothing and is
\* answered with a stored analysis of that number, unchanged.
C4_FreshAnalysisReused ==
    [][(/\ Arrives(1)
        /\ validate_phone_number(req'[1].phone_number)
        /\ ~req'[1].deep_scan
        /\ FreshAnalyses(req'[1].phone_number) # {})
       => AnsweredFromStore(1, FreshAnalyses(req'[1].phone_number))]_vars

\* what the route keeps of C4: the same holds when the stored analysis was
\* requested with the very same phone_number string
SameStringReused ==
    [][(/\ Arrives(1)
        /\ validate_phone_number(req'[1].phone_number)
        /\ ~req'[1].deep_scan
        /\ RecentAnalyses(req'[1].phone_number) # {})
       => AnsweredFromStore(1, RecentAnalyses(req'[1].phone_number))]_vars

\* C5: a request with deep_scan=true starts the pipeline whether or not a fresh
\* analysis of the number is stored; the run enters every step, and when it
\* completes its result is stored as one more row, the rows before it kept.
C5_DeepScanBypassesCache ==
    [][/\ (/\ Arrives(1)
           /\ validate_phone_number(req'[1].phone_number)
           /\ req'[1].deep_scan)
          => /\ pc'[1] = "basic_info"
             /\ results'[1] = NewResults(req'[1].phone_number)
             /\ steps_run'[1] = <<>>
             /\ UNCHANGED <<analyses, factor_rows>>
       /\ (pc[1] = "scored" /\ pc'[1] = "responded" /\ req[1].deep_scan)
          => /\ steps_run[1] = StepNames \o <<"scoring">>
             /\ Len(analyses') = Len(analyses) + 1
             /\ SubSeq(analyses', 1, Len(analyses)) = analyses
             /\ analyses'[Len(analyses')] =
                    PhoneAnalysis(next_id, req[1].phone_number, results[1], now)
             /\ resp'[1].code = 201
             /\ resp'[1].analysis = to_dict(analyses'[Len(analyses')], factor_rows')]_vars

\* a deep scan has been stored as a second row beside an analysis of the same
\* phone_number that is younger than 24 hours
C5_Witness ==
    /\ pc[1] = "responded"
    /\ req[1].deep_scan
    /\ resp[1].code = 201
    /\ Len(analyses) = 2
    /\ analyses[1].phone_number = analyses[2].phone_number
    /\ analyses[2].analysis_date - analyses[1].analysis_date < 24
    /\ resp[1].analysis.id = analyses[2].id

\* the phone number of the request is missing, does not parse or is no valid number
Malformed(phone_number) ==
    \/ phone_number = ""
    \/ phonenumbers_parse(phone_number).t = "raise"
    \/ ~phonenumbers_parse(phone_number).valid

\* C18: a request whose phone number is missing, unparseable or not a valid
\* number is answered with an error at once: no stored analysis is returned, no
\* step of the pipeline is entered, no provider is called and nothing is stored.
C18_MalformedRejected ==
    [][(Arrives(1) /\ Malformed(req'[1].phone_number))
       => /\ pc'[1] = "responded"
          /\ resp'[1].code \in {400, 500}
          /\ resp'[1].analysis = NoAnalysis
          /\ steps_run'[1] = <<>>
          /\ calls'[1] = NoCalls
          /\ results'[1] = results[1]
          /\ UNCHANGED <<analyses, factor_rows, next_id>>]_vars

\* a number that parses but is not valid has been answered 400, with analyses
\* of other numbers in the table
C18_Witness ==
    /\ pc[1] = "responded"
    /\ req[1].phone_number = "+1555"
    /\ resp[1].code = 400
    /\ Len(analyses) >= 1
    /\ steps_run[1] = <<>>

\* C20: the freshness lookup is keyed by the canonical (E.164) number: for every
\* valid phone number, in whatever textual form, it finds the stored analyses
\* of the number it denotes that are younger than 24 hours.
C20_CanonicalKey ==
    \A phone_number \in ApiPhones :
        ~Malformed(phone_number)
            => RecentAnalyses(phone_number) = FreshAnalyses(phone_number)

---------------------------------------------------------------------------
(* Claims about the risk factors and the evidence of one run (Spec) *)

\* the base score the contribution of a factor starts from
SeverityBase(severity) ==
    CASE severity = "CRITICAL" -> 100
      [] severity = "HIGH" -> 80
      [] severity = "MEDIUM" -> 50
      [] severity = "LOW" -> 25

\* C12: in a completed run every risk factor's score_contribution is
\* base(severity) * weight rounded to two decimals, with base CRITICAL=100,
\* HIGH=80, MEDIUM=50, LOW=25: a function of that factor's severity and weight,
\* whatever its place in the list, the other factors and the composite score.
C12_FactorContribution ==
    pc[1] = "scored" =>
        \A i \in 1..Len(results[1].risk_factors) :
            LET factor == results[1].risk_factors[i]
            IN  /\ factor.severity \in {"CRITICAL", "HIGH", "MEDIUM", "LOW"}
                /\ factor.score_contribution =
                       PyInt(Round2(SeverityBase(factor.severity) * factor.weight))

\* a run has completed with six factors, among them a LOW one of weight 0.05
\* given 1.25 and a CRITICAL one of weight 0.30 given 30.0
C12_Witness ==
    /\ pc[1] = "scored"
    /\ Len(results[1].risk_factors) = 6
    /\ \E i, j \in 1..6 :
           /\ results[1].risk_factors[i].severity = "LOW"
           /\ results[1].risk_factors[i].weight = 500
           /\ results[1].risk_factors[i].score_contribution = PyInt(125)
           /\ results[1].risk_factors[j].severity = "CRITICAL"
           /\ results[1].risk_factors[j].score_contribution = PyInt(3000)

\* the provider's call has completed and its answer is a payload with evidence,
\* not an error/unavailable payload
Usable(answer) == answer.t = "dict"
UsableKeyed(answer) == answer.t = "dict" /\ ~answer.error

\* the providers whose identifier may stand in data_sources_used: the one of
\* that name, given what the providers of run p have answered
SourceUsable(p, source) ==
    CASE source = "phonenumbers_library" ->
             phonenumbers_parse(results[p].phone_number).t = "ok"
      [] source = "IPQualityScore" ->
             \/ UsableKeyed(calls[p].ipqs)
             \/ (Usable(calls[p].spam) /\ calls[p].spam.sources = <<"IPQualityScore">>)
      [] source = "Numverify" -> UsableKeyed(calls[p].numverify)
      [] source = "social_media_scan" -> Usable(calls[p].social)
      [] source = "fraud_forum_scan" -> Usable(calls[p].fraud)
      [] source = "telegram_scan" -> Usable(calls[p].telegram)
      [] source = "whatsapp_check" -> Usable(calls[p].whatsapp)
      [] OTHER -> FALSE

\* C13: data_sources_used lists a provider only if that provider's call has
\* completed and returned usable evidence; a provider that failed, is still
\* pending or answered with an error/unavailable payload only is not listed.
C13_SourcesOnlyIfUsable ==
    \A i \in 1..Len(results[1].data_sources_used) :
        SourceUsable(1, results[1].data_sources_used[i])

\* C14: when the spam-report provider raised, the analysis returned still has
\* the phone identity, a risk_score and a risk_level, carries spam_check_error,
\* and its spam_reports_count is 0.
C14_SpamFailureDefaults ==
    (pc[1] = "scored" /\ calls[1].spam.t = "raise") =>
        /\ results[1].phone_number = req[1].phone_number
        /\ results[1].risk_score.t = "int"
        /\ results[1].risk_level \in {"MINIMAL", "LOW", "MEDIUM", "HIGH"}
        /\ "spam_check_error" \in results[1].errors
        /\ results[1].spam_reports_count = PyInt(0)

\* what holds of C14: everything but the count, which the result lacks
SpamFailureAnnotated ==
    (pc[1] = "scored" /\ calls[1].spam.t = "raise") =>
        /\ results[1].phone_number = req[1].phone_number
        /\ results[1].risk_score.t = "int"
        /\ results[1].risk_level \in {"MINIMAL", "LOW", "MEDIUM", "HIGH"}
        /\ "spam_check_error" \in results[1].errors
        /\ results[1].spam_reports_count = PyAbsent
        /\ _calculate_spam_score(results[1]) = Ok(0)

\* the merge of the rich-metadata step has run to its end
Merged(p) ==
    /\ pc[p] \notin {"idle", "basic_info", "rich_metadata"}
    /\ "rich_metadata" \notin failed[p]

\* a carrier name that is there and is not "Unknown"
KnownCarrier(name) == name \notin {"absent", "", "Unknown"}

HasFactor(p, factor_type, severity, weight) ==
    \E i \in 1..Len(results[p].risk_factors) :
        /\ results[p].risk_factors[i].factor_type = factor_type
        /\ results[p].risk_factors[i].severity = severity
        /\ results[p].risk_factors[i].weight = weight

HasFactorType(p, factor_type) ==
    \E i \in 1..Len(results[p].risk_factors) :
        results[p].risk_factors[i].factor_type = factor_type

\* the carrier rules of the merge, for a reading Known of "the carrier is known"
CarrierRules(p, Known(_)) ==
    LET fraud_score_carrier == calls[p].ipqs.carrier
        validity_carrier == calls[p].numverify.carrier
        both_differ == /\ Known(fraud_score_carrier)
                       /\ Known(validity_carrier)
                       /\ fraud_score_carrier # validity_carrier
        merged == results[p].rich_metadata
    IN  /\ (Known(fraud_score_carrier) /\ Known(validity_carrier))
               => merged.current_carrier = fraud_score_carrier
        /\ merged.porting_detected <=> both_differ
        /\ HasFactorType(p, "porting_detected") <=> both_differ
        /\ HasFactorType(p, "porting_detected")
               => HasFactor(p, "porting_detected", "LOW", 1000)
        /\ HasFactorType(p, "voip_number") <=> calls[p].ipqs.VOIP
        /\ HasFactorType(p, "voip_number")
               => HasFactor(p, "voip_number", "MEDIUM", 1500)

\* C15: in the merge the fraud-score provider's carrier is the current carrier
\* whenever both providers report a carrier that is present and not "Unknown";
\* porting_detected is true, and a porting_detected factor (LOW, 0.10) is added,
\* exactly when both carriers are known and differ; a voip_number factor
\* (MEDIUM, 0.15) is added exactly when the fraud-score provider reports VOIP.
C15_CarrierMerge == Merged(1) => CarrierRules(1, KnownCarrier)

\* what holds of C15: the same rules with every carrier value other than
\* "Unknown" and a missing key counted as known, the empty name included
NamedCarrier(name) == name \notin {"absent", "Unknown"}
CarrierMergeNamed ==
    (Merged(1) /\ calls[1].ipqs.carrier # "") => CarrierRules(1, NamedCarrier)

\* a count that reports nothing: 0, or the key never set
ZeroCount(count) == count \in {PyInt(0), PyAbsent}

\* no provider has yielded evidence: no anomaly, no account, no report, no mention
ZeroEvidence(res) ==
    /\ res.social_media_presence.t \in {"dict", "absent"}
    /\ ~res.social_media_presence.anomaly_detected
    /\ res.social_media_presence.accounts_found = <<>>
    /\ ZeroCount(res.spam_reports_count)
    /\ ZeroCount(res.fraud_mentions_count)

\* C16: when basic parsing succeeded, the location is unknown and every provider
\* yielded zero evidence, the risk_score is 5.0 (30 * 0.10 for no accounts plus
\* 20 * 0.10 for the unknown location) and the risk_level is MINIMAL.
C16_ZeroEvidenceScore ==
    (/\ RunOver(1)
     /\ "basic_info" \notin failed[1]
     /\ results[1].location = "Unknown"
     /\ ZeroEvidence(results[1])) =>
        /\ pc[1] = "scored"
        /\ results[1].risk_score = PyInt(500)
        /\ results[1].risk_level = "MINIMAL"

\* such a run has completed without a failed step and with no risk factor
C16_Witness ==
    /\ pc[1] = "scored"
    /\ failed[1] = {}
    /\ results[1].location = "Unknown"
    /\ ZeroEvidence(results[1])
    /\ results[1].spam_reports_count = PyInt(0)
    /\ results[1].fraud_mentions_count = PyInt(0)
    /\ results[1].risk_factors = <<>>
    /\ results[1].risk_score = PyInt(500)

\* a step of the run of p is taken
StepOfRun(p) == pc[p] \notin {"idle", "scored", "raised"} /\ pc'[p] # pc[p]

\* C19: within a run the risk factors are append-only: a step, the scoring step
\* included, leaves every factor already in the result where it is and as it is.
C19_FactorsAppendOnly ==
    [][StepOfRun(1)
       => /\ Len(results'[1].risk_factors) >= Len(results[1].risk_factors)
          /\ SubSeq(results'[1].risk_factors, 1, Len(results[1].risk_factors))
                 = results[1].risk_factors]_vars

\* a factor without its score_contribution
Uncontributed(factor) == [factor EXCEPT !.score_contribution = PyAbsent]

\* what holds of C19: no factor is removed or moved, and the score_contribution
\* is the only field of a factor a later step writes
FactorsKeptButContribution ==
    [][StepOfRun(1)
       => /\ Len(results'[1].risk_factors) >= Len(results[1].risk_factors)
          /\ \A i \in 1..Len(results[1].risk_factors) :
                 Uncontributed(results'[1].risk_factors[i])
                     = Uncontributed(results[1].risk_factors[i])
          /\ pc[1] # "scoring"
                 => SubSeq(results'[1].risk_factors, 1, Len(results[1].risk_factors))
                        = results[1].risk_factors]_vars

---------------------------------------------------------------------------
(* Claims about two runs of PhoneAnalyzer.analyze (SpecTwice) *)

\* the two runs are over, were given the same phone number and their providers
\* have answered the same
SameRuns ==
    /\ RunOver(1)
    /\ RunOver(2)
    /\ req[1].phone_number = req[2].phone_number
    /\ calls[1] = calls[2]

---------------------------------------------------------------------------
(* Claims about the order of a run (Spec) *)

\* the steps of analyze in the order the claim gives them
Pipeline == <<"basic_info", "rich_metadata", "social_media", "spam_check",
              "fraud_scan", "messaging_apps", "scoring">>

IsPrefix(s, t) == Len(s) <= Len(t) /\ \A i \in 1..Len(s) : s[i] = t[i]

\* the place in the pipeline of the step that adds factors of a category
CategoryStep(category) ==
    CASE category \in {"carrier", "compliance"} -> 2
      [] category = "social_media" -> 3
      [] category = "spam_reports" -> 4
      [] category = "fraud_forum" -> 5
      [] category = "messaging_apps" -> 6
      [] OTHER -> 0

InStepOrder(factors) ==
    \A i, j \in 1..Len(factors) :
        i < j => CategoryStep(factors[i].category) <= CategoryStep(factors[j].category)

\* C24: in every run the steps execute exactly once each and strictly in the
\* order basic info, rich metadata, social media, spam databases, fraud forums,
\* messaging apps, scoring; scoring starts only after all six evidence steps
\* have finished, and the risk factors appear in the result in step order.
C24_StepsInOrder ==
    /\ IsPrefix(steps_run[1], Pipeline)
    /\ pc[1] = "scoring" => Len(steps_run[1]) = 6
    /\ pc[1] \in {"scored", "raised"} => steps_run[1] = Pipeline
    /\ \A i \in 1..Len(results[1].risk_factors) :
           CategoryStep(results[1].risk_factors[i].category) \in 2..Len(steps_run[1])
    /\ InStepOrder(results[1].risk_factors)

\* a finished run in which a step failed and four steps added factors
C24_Witness ==
    /\ pc[1] = "scored"
    /\ steps_run[1] = Pipeline
    /\ "basic_info" \in failed[1]
    /\ {CategoryStep(results[1].risk_factors[i].category) :
            i \in 1..Len(results[1].risk_factors)} = {2, 3, 4, 5, 6}

\* the working result with the annotation of a step added and nothing else
OnlyAnnotated(res, step) == [res EXCEPT !.errors = @ \cup {ErrorKey(step)}]

\* a step whose first provider call raises adds its annotation and nothing else
RaisingCallAddsOnlyAnnotation ==
    [][\A step \in EvidenceSteps :
          (/\ step \in failed'[1] \ failed[1]
           /\ \/ step = "basic_info"
              \/ step = "rich_metadata" /\ calls'[1].ipqs.t = "raise"
              \/ step = "social_media" /\ calls'[1].social.t = "raise"
              \/ step = "spam_check" /\ calls'[1].spam.t = "raise"
              \/ step = "fraud_scan" /\ calls'[1].fraud.t = "raise"
              \/ step = "messaging_apps" /\ calls'[1].telegram.t = "raise") =>
              results'[1] = OnlyAnnotated(results[1], step)]_vars

\* C27: a step that records its error annotation leaves the rest of the working
\* result unchanged: it adds no evidence field, no data_sources_used entry and
\* no risk factor.
C27_FailedStepAddsOnlyAnnotation ==
    [][\A step \in EvidenceSteps :
          step \in failed'[1] \ failed[1] =>
              results'[1] = OnlyAnnotated(results[1], step)]_vars

---------------------------------------------------------------------------
(* Claims about the shipped providers (SpecProviders, SpecReal) *)

ProviderCalls == {"validate", "check_fraud", "SpamDatabaseChecker.check",
                  "FraudForumScanner.scan"}

\* the key of the API the exchange is with is not configured
MissingCredential ==
    \/ probe.kind = "numverify" /\ ~env.NUMVERIFY_API_KEY
    \/ probe.kind = "ipqs" /\ ~env.IPQUALITYSCORE_API_KEY

\* the request did not bring back a JSON body
RequestFailed == probe.http.outcome # "ok"

\* no provider raises on a missing credential, a network failure or a timeout
NeverRaisesOnFailedRequest ==
    (probe_out.fn \in ProviderCalls /\ (MissingCredential \/ RequestFailed)) =>
        ~probe_out.raised

\* the validity and fraud-score payloads of a failure carry an 'error' member
ErrorIndicated ==
    (/\ probe_out.fn \in {"validate", "check_fraud"}
     /\ ~probe_out.raised
     /\ MissingCredential \/ RequestFailed \/ probe.http.json.t = "empty") =>
        probe_out.payload.error # "absent"

\* C23: an evidence provider call (validate, check_fraud, SpamDatabaseChecker.check,
\* FraudForumScanner.scan) never raises, whether the credential is missing, the
\* request fails or times out, or the upstream response is malformed; it returns
\* a payload, which for the validity and fraud-score providers carries an
\* explicit 'error' member on a failure.
C23_ProvidersNeverRaise ==
    /\ probe_out.fn \in ProviderCalls => ~probe_out.raised
    /\ ErrorIndicated

\* a count that is missing or at most n
AtMost(count, n) == count.t = "absent" \/ (count.t = "int" /\ count.v <= n)

\* C26: with the shipped providers and an upstream spam_score in 0..100, every
\* run has no social anomaly and no found account, spam_reports_count <= 10 and
\* fraud_mentions_count <= 1; the run is scored, with risk_score <= 32.5 and
\* risk_level MINIMAL or LOW.
C26_ShippedProvidersLowRisk ==
    /\ ~results[1].social_media_presence.anomaly_detected
    /\ results[1].social_media_presence.accounts_found = <<>>
    /\ AtMost(results[1].spam_reports_count, 10)
    /\ AtMost(results[1].fraud_mentions_count, 1)
    /\ pc[1] # "raised"
    /\ pc[1] = "scored" =>
           /\ results[1].risk_score.t = "int"
           /\ results[1].risk_score.v <= 3250
           /\ results[1].risk_level \in {"MINIMAL", "LOW"}

\* a run that gathers the most the shipped providers can give: ten spam reports,
\* one fraud mention, no location
C26_Witness ==
    /\ pc[1] = "scored"
    /\ results[1].spam_reports_count = PyInt(10)
    /\ results[1].fraud_mentions_count = PyInt(1)
    /\ results[1].location = "Unknown"
    /\ results[1].risk_score = PyInt(3250)
    /\ results[1].risk_level = "LOW"

\* the fraud-score provider answered an unavailable/error payload
FraudScoreUnavailable == calls[1].ipqs.t = "dict" /\ calls[1].ipqs.error

\* C30: when the fraud-score provider returns an unavailable/error payload, the
\* rich-metadata step adds no voip_number, porting_detected or
\* do_not_call_registry risk factor and reports porting_detected = false,
\* whatever carrier the validity provider reports.
C30_UnavailableFraudScoreAddsNoFactor ==
    FraudScoreUnavailable =>
        /\ ~HasFactorType(1, "voip_number")
        /\ ~HasFactorType(1, "porting_detected")
        /\ ~HasFactorType(1, "do_not_call_registry")
        /\ ~results[1].rich_metadata.porting_detected
        /\ Merged(1) => results[1].rich_metadata.t = "dict"

\* the merge of an error payload with a validity answer that names a carrier
C30_Witness ==
    /\ FraudScoreUnavailable
    /\ Merged(1)
    /\ calls[1].numverify.carrier = "CarrierA"
    /\ results[1].rich_metadata.current_carrier = "CarrierA"
    /\ results[1].rich_metadata.original_carrier = "CarrierA"

---------------------------------------------------------------------------
(* Claims about what a request hands on (SpecApi) *)

\* the *_error keys a document carries
Annotations(doc) == IF "errors" \in DOMAIN doc THEN doc.errors ELSE {}

\* the stored row a 201 answer is about
StoredRow(id) == CHOOSE row \in Rows(analyses) : row.id = id

\* what analyze returns carries the annotation of every step that failed
ErrorsReturned ==
    \A p \in Procs :
        pc[p] = "scored" =>
            \A step \in failed[p] : ErrorKey(step) \in Annotations(results[p])

\* C22: for every evidence step that failed during a run, the analysis result
\* delivered to the caller of analyze, the record handed to persistence and the
\* document answered to the client carry that step's error annotation.
C22_ErrorsDelivered ==
    /\ ErrorsReturned
    /\ \A p \in Procs :
           resp[p].code = 201 =>
               \A step \in failed[p] :
                   /\ ErrorKey(step) \in Annotations(StoredRow(resp[p].analysis.id))
                   /\ ErrorKey(step) \in Annotations(resp[p].analysis)

\* C25: if the terminal scoring step fails, analyze raises (one top-level
\* 'Analysis failed' error), the request is answered with an error, and the
\* store is left unchanged: no analysis record and no risk-factor record of
\* that run is persisted.
C25_ScoringFailureStoresNothing ==
    [][\A p \in Procs :
          /\ (pc[p] = "scoring" /\ "scoring" \in failed'[p]) => pc'[p] = "raised"
          /\ pc[p] = "raised" =>
                 /\ analyses' = analyses
                 /\ factor_rows' = factor_rows
                 /\ pc'[p] # "raised" =>
                        /\ pc'[p] = "responded"
                        /\ resp'[p].code = 500
                        /\ resp'[p].analysis = NoAnalysis]_vars

\* a request answered 500 after its scoring step failed, with the one record of
\* an earlier request still the only one stored
C25_Witness ==
    /\ pc[1] = "responded"
    /\ "scoring" \in failed[1]
    /\ resp[1].code = 500
    /\ Len(analyses) = 1
    /\ next_id = 2

---------------------------------------------------------------------------
(* Claims about the two tables under analyze, delete and clear (SpecStore) *)

AnalysisIds(table) == {table[i].id : i \in 1..Len(table)}

\* the factors of one analysis, in table order
FactorsOf(table, id) ==
    LET Mine(factor) == factor.analysis_id = id
    IN  SelectSeq(table, Mine)

\* every stored risk factor refers to a stored analysis
FactorsRefer ==
    \A i \in 1..Len(factor_rows) : factor_rows[i].analysis_id \in AnalysisIds(analyses)

\* the request p is answered in this step: the analysis id was deleted
DeletedNow(p, id) ==
    /\ pc[p] = "idle"
    /\ pc'[p] = "responded"
    /\ resp'[p].code = 200
    /\ resp'[p].message = "Analysis deleted successfully"
    /\ resp'[p].analysis.id = id

\* a delete removes the analysis and its factors and nothing else
DeleteIsExact ==
    \A p \in Procs, id \in 1..MaxKey :
        DeletedNow(p, id) =>
            /\ id \in AnalysisIds(analyses)
            /\ Rows(analyses') = {row \in Rows(analyses) : row.id # id}
            /\ Len(analyses') = Len(analyses) - 1
            /\ FactorsOf(factor_rows', id) = <<>>
            /\ \A other \in AnalysisIds(analyses) \ {id} :
                   FactorsOf(factor_rows', other) = FactorsOf(factor_rows, other)
            /\ Len(factor_rows') = Len(factor_rows) - Len(FactorsOf(factor_rows, id))

\* C29: after any sequence of analyze, delete-analysis-by-id and clear-history
\* operations every stored risk factor refers to an existing stored analysis;
\* deleting an analysis removes exactly that analysis and its own risk factors
\* and leaves every other analysis and its factors unchanged.
C29_ReferentialIntegrity == []FactorsRefer /\ [][DeleteIsExact]_vars

\* a delete just answered, with another analysis and its factors still stored
C29_Witness ==
    /\ pc[2] = "responded"
    /\ resp[2].message = "Analysis deleted successfully"
    /\ resp[2].analysis.id \notin AnalysisIds(analyses)
    /\ Len(analyses) = 2
    /\ Len(factor_rows) >= 4
    /\ FactorsRefer

---------------------------------------------------------------------------
(* Claims about two requests handled at the same time (SpecConcurrent) *)

\* analyze run alone on a number with the given provider answers: the seven
\* steps one after another on a working result of its own
AnalyzeAlone(phone_number, c) ==
    LET r0 == NewResults(phone_number)
        r1 == _get_basic_info(r0, phonenumbers_parse(phone_number))
        r2 == _get_rich_metadata(r1, c.ipqs, c.numverify)
        r3 == _check_social_media(r2, c.social)
        r4 == _check_spam_databases(r3, c.spam)
        r5 == _check_fraud_forums(r4, c.fraud)
        r6 == _check_messaging_apps(r5, c.telegram, c.whatsapp)
    IN  Try_calculate_risk(r6).res

\* a finished run holds the result it would have obtained alone
IndependentRuns ==
    \A p \in Procs :
        pc[p] = "scored" =>
            results[p] = AnalyzeAlone(req[p].phone_number, calls[p])

\* both requests missed the freshness cache and both stored a record
BothMissedAndStored ==
    /\ Len(analyses) = 2
    /\ analyses[1].phone_number = analyses[2].phone_number
    /\ analyses[1].analysis_date > now - 24
    /\ analyses[2].analysis_date > now - 24

\* the fresh row for the number that was written last
WrittenLast(phone_number) ==
    LET fresh == {i \in 1..Len(analyses) :
                     /\ analyses[i].phone_number = phone_number
                     /\ analyses[i].analysis_date > now - 24}
    IN  analyses[CHOOSE i \in fresh : \A j \in fresh : j <= i]

\* a later deep_scan=false request inside the window returns the record that was
\* written last
LastWriteWins ==
    \A p \in Procs :
        (resp[p].code = 200 /\ BothMissedAndStored) =>
            resp[p].analysis.id = WrittenLast(req[p].phone_number).id

\* C21: two concurrent analyze requests for the same number are independent
\* (each obtains the result it would have obtained alone), and once both have
\* stored a record a later deep_scan=false request inside the window is answered
\* with the record that was written last.
C21_LastWriteWins ==
    /\ IndependentRuns
    /\ LastWriteWins

=============================================================================
